---------------------------- MODULE Spec2Model ----------------------------
(***************************************************************************)
(* Claims dashboard backend: the cursor/offset query engine of             *)
(* ClaimsService.listClaims (backend/src/claims/claims.service.ts) and the *)
(* incremental summary updater SummaryUpdaterService.applyInsert           *)
(* (summary-updater.service.ts, concatenated in stats/stats.module.ts).    *)
(*                                                                         *)
(* Strings that the code builds or parses are sequences of one-character   *)
(* strings.  A JavaScript Date is the pair (day since 1970-01-01, ms of    *)
(* the day), which is its millisecond count split so that both parts fit   *)
(* the checker's integers.  An ObjectId is its sequence of 12 bytes.       *)
(***************************************************************************)
EXTENDS Integers, Sequences, FiniteSets, Bags, TLC

VARIABLES claims, walk, resp, off, codec, summary, facets, calls, clock, mig,
          claimDocs, upd, boot, streams, starts, env, bc, reads, client

claimVars == <<claims>>
walkVars == <<walk>>
listVars == <<resp, off>>
codecVars == <<codec>>
queryVars == <<claims, walk, resp, off, codec>>
bootVars == <<claimDocs, upd, boot>>
lifeVars == <<mig, bootVars>>
streamVars == <<streams, starts, env>>
wireVars == <<bc, reads, client>>
updaterVars == <<summary, facets, calls, clock, lifeVars, streamVars>>
summaryVars == <<summary, facets, calls, clock, lifeVars, streamVars, wireVars>>
vars == <<claims, walk, resp, off, codec, summary, facets, calls, clock, mig, claimDocs, upd, boot,
          streams, starts, env, bc, reads, client>>

(***************************************************************************)
(* Generic helpers                                                         *)
(***************************************************************************)
\* A value that may be null or undefined is <<>> when it is, and <<v>> otherwise
None == <<>>
Some(v) == <<v>>
IsSome(o) == o # <<>>

Min2(a, b) == IF a <= b THEN a ELSE b

Range(s) == {s[i] : i \in DOMAIN s}

RECURSIVE SeqSum(_)
SeqSum(s) == IF s = <<>> THEN 0 ELSE Head(s) + SeqSum(Tail(s))

\* the concatenation of a sequence of sequences
RECURSIVE Flatten(_)
Flatten(ss) == IF ss = <<>> THEN <<>> ELSE Head(ss) \o Flatten(Tail(ss))

\* Array.prototype.slice(0, n)
Slice0(s, n) == SubSeq(s, 1, Min2(n, Len(s)))

(***************************************************************************)
(* Characters and numbers                                                  *)
(***************************************************************************)
HexChars == <<"0", "1", "2", "3", "4", "5", "6", "7", "8", "9", "a", "b", "c", "d", "e", "f">>
UpperHexChars == <<"0", "1", "2", "3", "4", "5", "6", "7", "8", "9", "A", "B", "C", "D", "E", "F">>
DecChars == SubSeq(HexChars, 1, 10)

IsDecChar(ch) == \E i \in 1..10 : DecChars[i] = ch
IsHexChar(ch) == \E i \in 1..16 : HexChars[i] = ch \/ UpperHexChars[i] = ch

DecVal(ch) == (CHOOSE i \in 1..10 : DecChars[i] = ch) - 1
HexVal(ch) == (CHOOSE i \in 1..16 : HexChars[i] = ch \/ UpperHexChars[i] = ch) - 1

\* n written in decimal, zero padded to w digits
RECURSIVE PadDec(_, _)
PadDec(n, w) == IF w = 0 THEN <<>> ELSE Append(PadDec(n \div 10, w - 1), DecChars[(n % 10) + 1])

AllDec(s) == \A i \in DOMAIN s : IsDecChar(s[i])

RECURSIVE DecNum(_)
DecNum(s) == IF s = <<>> THEN 0 ELSE 10 * DecNum(SubSeq(s, 1, Len(s) - 1)) + DecVal(s[Len(s)])

(***************************************************************************)
(* Date: toISOString() and new Date(string)                                *)
(***************************************************************************)
MsPerDay == 86400000

MkDate(day, ms) == [day |-> day, ms |-> ms]
\* a serviceDate that is null in the stored document (not a Date)
NullDate == MkDate(-1, 0)
\* the Invalid Date (getTime() is NaN)
NaNDate == MkDate(-2, 0)
\* v instanceof Date, for a stored field
IsDate(v) == v.day >= 0

\* Gregorian calendar date of a day number (days since 1970-01-01)
CivilFromDays(z0) ==
  LET z == z0 + 719468
      era == z \div 146097
      doe == z - era * 146097
      yoe == (doe - (doe \div 1460) + (doe \div 36524) - (doe \div 146096)) \div 365
      doy == doe - (365 * yoe + (yoe \div 4) - (yoe \div 100))
      mp == (5 * doy + 2) \div 153
      d == doy - ((153 * mp + 2) \div 5) + 1
      m == IF mp < 10 THEN mp + 3 ELSE mp - 9
      y == yoe + era * 400 + (IF m <= 2 THEN 1 ELSE 0)
  IN [y |-> y, m |-> m, d |-> d]

\* Day number of a Gregorian calendar date
DaysFromCivil(y0, m, d) ==
  LET y == IF m <= 2 THEN y0 - 1 ELSE y0
      era == y \div 400
      yoe == y - era * 400
      doy == ((153 * (IF m > 2 THEN m - 3 ELSE m + 9) + 2) \div 5) + d - 1
      doe == yoe * 365 + (yoe \div 4) - (yoe \div 100) + doy
  IN era * 146097 + doe - 719468

IsLeapYear(y) == (y % 4 = 0 /\ y % 100 # 0) \/ y % 400 = 0

DaysInMonth(y, m) ==
  IF m = 2 THEN (IF IsLeapYear(y) THEN 29 ELSE 28)
  ELSE IF m \in {4, 6, 9, 11} THEN 30 ELSE 31

\* toISOString cut to whole seconds (the milliseconds printed as 000)
ToISOStringSeconds(date) ==
  LET c == CivilFromDays(date.day)
      hh == date.ms \div 3600000
      mm == (date.ms \div 60000) % 60
      ss == (date.ms \div 1000) % 60
  IN PadDec(c.y, 4) \o <<"-">> \o PadDec(c.m, 2) \o <<"-">> \o PadDec(c.d, 2) \o <<"T">>
       \o PadDec(hh, 2) \o <<":">> \o PadDec(mm, 2) \o <<":">> \o PadDec(ss, 2)
       \o <<".", "0", "0", "0", "Z">>

\* Date.prototype.toISOString for years 1970..9999: YYYY-MM-DDTHH:mm:ss.sssZ
ToISOString(date) ==
  LET c == CivilFromDays(date.day)
      hh == date.ms \div 3600000
      mm == (date.ms \div 60000) % 60
      ss == (date.ms \div 1000) % 60
      sss == date.ms % 1000
  IN PadDec(c.y, 4) \o <<"-">> \o PadDec(c.m, 2) \o <<"-">> \o PadDec(c.d, 2) \o <<"T">>
       \o PadDec(hh, 2) \o <<":">> \o PadDec(mm, 2) \o <<":">> \o PadDec(ss, 2)
       \o <<".">> \o PadDec(sss, 3) \o <<"Z">>

\* new Date(str): the ISO format above is parsed field by field; every other
\* string of the inputs enumerated here is one the engine reports as Invalid Date.
ParseDate(s) ==
  IF Len(s) # 24 THEN NaNDate
  ELSE
    LET yS == SubSeq(s, 1, 4)
        moS == SubSeq(s, 6, 7)
        dS == SubSeq(s, 9, 10)
        hS == SubSeq(s, 12, 13)
        miS == SubSeq(s, 15, 16)
        sS == SubSeq(s, 18, 19)
        msS == SubSeq(s, 21, 23)
        shape == /\ s[5] = "-" /\ s[8] = "-" /\ s[11] = "T" /\ s[14] = ":"
                 /\ s[17] = ":" /\ s[20] = "." /\ s[24] = "Z"
                 /\ AllDec(yS \o moS \o dS \o hS \o miS \o sS \o msS)
    IN IF ~shape THEN NaNDate
       ELSE
         LET y == DecNum(yS)
             mo == DecNum(moS)
             d == DecNum(dS)
             h == DecNum(hS)
             mi == DecNum(miS)
             sec == DecNum(sS)
             ms == DecNum(msS)
         IN IF /\ mo \in 1..12
               /\ d \in 1..DaysInMonth(y, mo)
               /\ h \in 0..23 /\ mi \in 0..59 /\ sec \in 0..59
               /\ DaysFromCivil(y, mo, d) >= 0
            THEN MkDate(DaysFromCivil(y, mo, d), ((h * 60 + mi) * 60 + sec) * 1000 + ms)
            ELSE NaNDate

(***************************************************************************)
(* ObjectId: toString(), isValid(string), new ObjectId(string)             *)
(***************************************************************************)
OidBytes == 12

IsOid(v) == v \in [1..OidBytes -> 0..255]

\* ObjectId.prototype.toString: two lower-case hex digits per byte
RECURSIVE OidToString(_)
OidToString(id) ==
  IF id = <<>> THEN <<>>
  ELSE <<HexChars[(Head(id) \div 16) + 1], HexChars[(Head(id) % 16) + 1]>> \o OidToString(Tail(id))

\* ObjectId.isValid for a string argument: 24 hex digits
OidIsValid(s) == Len(s) = 2 * OidBytes /\ \A i \in DOMAIN s : IsHexChar(s[i])

\* new ObjectId(hexString)
OidFromString(s) == [i \in 1..OidBytes |-> 16 * HexVal(s[2 * i - 1]) + HexVal(s[2 * i])]

(***************************************************************************)
(* Cursor codec                                                            *)
(***************************************************************************)
CURSOR_SEPARATOR == "|"

\* String.prototype.split(sep): the parts between separators
RECURSIVE SplitAcc(_, _, _)
SplitAcc(s, sep, cur) ==
  IF s = <<>> THEN <<cur>>
  ELSE IF Head(s) = sep THEN <<cur>> \o SplitAcc(Tail(s), sep, <<>>)
  ELSE SplitAcc(Tail(s), sep, Append(cur, Head(s)))

Split(s, sep) == SplitAcc(s, sep, <<>>)

parseCursor(cursor) ==
  LET parts == Split(cursor, CURSOR_SEPARATOR)
      dateStr == parts[1]
      idStr == IF Len(parts) >= 2 THEN parts[2] ELSE <<>>
  IN IF dateStr = <<>> \/ idStr = <<>> \/ ~OidIsValid(idStr) THEN None
     ELSE LET date == ParseDate(dateStr)
          IN IF date = NaNDate THEN None
             ELSE Some([date |-> date, id |-> OidFromString(idStr)])

\* the template string of listClaims that becomes nextCursor
BuildCursor(serviceDate, id) == ToISOString(serviceDate) \o <<CURSOR_SEPARATOR>> \o OidToString(id)

(***************************************************************************)
(* The claims collection                                                   *)
(***************************************************************************)
\* Largest number of documents the claims collection holds in a run
MaxClaims == 4

Oid(n) == [i \in 1..OidBytes |-> IF i = 1 THEN 101 ELSE IF i = 4 THEN 171 ELSE IF i = OidBytes THEN n ELSE 0]

DateA == MkDate(DaysFromCivil(2021, 1, 1), 0)
DateB == MkDate(DaysFromCivil(2024, 2, 29), MsPerDay - 1)

\* Array.prototype.join(sep)
RECURSIVE Join(_, _)
Join(parts, sep) ==
  IF parts = <<>> THEN <<>>
  ELSE IF Len(parts) = 1 THEN Head(parts)
  ELSE Head(parts) \o <<sep>> \o Join(Tail(parts), sep)

\* The claim document: searchText is the member name, the provider name and
\* the codes joined by spaces
MkClaim(n, date, status, amount, region, specialty, procedureCodes, diagnosisCodes, memberName, providerName) ==
  [_id |-> Oid(n), serviceDate |-> date, status |-> status, totalAmount |-> amount,
   memberRegion |-> region, providerSpecialty |-> specialty,
   procedureCodes |-> procedureCodes, diagnosisCodes |-> diagnosisCodes,
   searchText |-> Join(<<memberName, providerName, Join(procedureCodes, " "), Join(diagnosisCodes, " ")>>, " ")]

Cpt99213 == <<"9", "9", "2", "1", "3">>
Cpt71020 == <<"7", "1", "0", "2", "0">>
IcdI10 == <<"I", "1", "0">>
IcdR51 == <<"R", "5", "1">>
NameAva == <<"A", "v", "a">>
NameBen == <<"B", "e", "n">>
NameKim == <<"K", "i", "m">>
NameLee == <<"L", "e", "e">>

\* The documents the ingestion paths insert in a run: claims that tie on
\* serviceDate and on totalAmount, ids whose order is not the date order, and
\* one claim stored without a serviceDate (seed-load writes null for it).
ClaimPool ==
  { MkClaim(1, DateB, "denied", 100, "Northeast", "Cardiology", <<Cpt99213>>, <<IcdI10>>, NameAva, NameLee),
    MkClaim(2, DateA, "denied", 100, "Midwest", "Cardiology", <<Cpt71020>>, <<IcdI10>>, NameBen, NameLee),
    MkClaim(3, DateA, "denied", 250, "Northeast", "Oncology", <<Cpt99213, Cpt71020>>, <<IcdR51>>, NameAva, NameKim),
    MkClaim(4, DateA, "paid", 100, "Midwest", "Oncology", <<Cpt71020>>, <<IcdR51>>, NameBen, NameKim),
    MkClaim(5, NullDate, "denied", 250, "Northeast", "Cardiology", <<Cpt99213>>, <<IcdR51>>, NameAva, NameKim),
    MkClaim(6, DateB, "paid", 250, "Midwest", "Oncology", <<Cpt71020>>, <<IcdI10>>, NameBen, NameLee) }

\* BSON comparison of two serviceDate values: null sorts before every Date
CmpDate(a, b) ==
  IF a.day < b.day THEN -1 ELSE IF a.day > b.day THEN 1
  ELSE IF a.ms < b.ms THEN -1 ELSE IF a.ms > b.ms THEN 1 ELSE 0

\* BSON comparison of two ObjectIds: byte by byte
RECURSIVE CmpOid(_, _)
CmpOid(a, b) ==
  IF a = <<>> THEN 0
  ELSE IF Head(a) < Head(b) THEN -1
  ELSE IF Head(a) > Head(b) THEN 1
  ELSE CmpOid(Tail(a), Tail(b))

CmpNum(a, b) == IF a < b THEN -1 ELSE IF a > b THEN 1 ELSE 0

\* The strings the documents hold in status, memberRegion and
\* providerSpecialty, in the binary order BSON compares strings by
StringOrder == <<"Cardiology", "Midwest", "Northeast", "Oncology", "denied", "paid">>

StrRank(str) == IF \E i \in DOMAIN StringOrder : StringOrder[i] = str
                THEN CHOOSE i \in DOMAIN StringOrder : StringOrder[i] = str
                ELSE 0

CmpStr(a, b) == CmpNum(StrRank(a), StrRank(b))

\* Comparison of two documents on one sort field; a field no document of the
\* collection carries compares equal (missing sorts as null)
CmpField(a, b, field) ==
  IF field = "serviceDate" THEN CmpDate(a.serviceDate, b.serviceDate)
  ELSE IF field = "_id" THEN CmpOid(a._id, b._id)
  ELSE IF field = "totalAmount" THEN CmpNum(a.totalAmount, b.totalAmount)
  ELSE IF field = "status" THEN CmpStr(a.status, b.status)
  ELSE IF field = "memberRegion" THEN CmpStr(a.memberRegion, b.memberRegion)
  ELSE IF field = "providerSpecialty" THEN CmpStr(a.providerSpecialty, b.providerSpecialty)
  ELSE 0

\* Comparison on a list of sort fields, all in one direction
RECURSIVE CmpFields(_, _, _)
CmpFields(a, b, fields) ==
  IF fields = <<>> THEN 0
  ELSE IF CmpField(a, b, Head(fields)) # 0 THEN CmpField(a, b, Head(fields))
  ELSE CmpFields(a, b, Tail(fields))

\* a must be returned before b by sort(spec)
Precedes(a, b, spec) == spec.dir * CmpFields(a, b, spec.fields) < 0

\* cursor.sort(spec).toArray(): every order of the documents the sort allows.
\* Documents that tie on all sort fields come in an order the store picks
\* anew for each query.
RECURSIVE SortedOrders(_, _)
SortedOrders(S, spec) ==
  IF S = {} THEN {<<>>}
  ELSE UNION { {<<x>> \o r : r \in SortedOrders(S \ {x}, spec)} :
               x \in {y \in S : \A z \in S : ~Precedes(z, y, spec)} }

(***************************************************************************)
(* ClaimsService.listClaims                                                *)
(***************************************************************************)
ALLOWED_SORT_FIELDS == {"serviceDate", "totalAmount", "status", "memberRegion", "providerSpecialty"}

DefaultPageSize == 50

\* The filter parameters of a request.  status, region and providerSpecialty
\* are "" when not supplied; startDate, endDate, codes and q are strings of
\* characters, empty when not supplied; minAmount and maxAmount are None when
\* not supplied.
MkFilter(status, region, providerSpecialty, startDate, endDate, minAmount, maxAmount, codes, q) ==
  [status |-> status, region |-> region, providerSpecialty |-> providerSpecialty,
   startDate |-> startDate, endDate |-> endDate,
   minAmount |-> minAmount, maxAmount |-> maxAmount, codes |-> codes, q |-> q]

NoFilter == MkFilter("", "", "", <<>>, <<>>, None, None, <<>>, <<>>)

\* A request: the filter parameters, and page and pageSize 0 when not
\* supplied, cursor None when the parameter is absent and Some(string) when it
\* is present.
MkQuery(f, sortBy, sortDir, page, pageSize, includeTotal, cursor) ==
  [status |-> f.status, region |-> f.region, providerSpecialty |-> f.providerSpecialty,
   startDate |-> f.startDate, endDate |-> f.endDate,
   minAmount |-> f.minAmount, maxAmount |-> f.maxAmount, codes |-> f.codes, q |-> f.q,
   sortBy |-> sortBy, sortDir |-> sortDir, page |-> page, pageSize |-> pageSize,
   includeTotal |-> includeTotal, cursor |-> cursor]

\* the mode chosen by the truthiness of the cursor: '' counts as absent
hasCursorTruthy(query) == query.cursor # None /\ query.cursor # Some(<<>>)

hasCursorOf(query) == query.cursor # None

\* the sort field taken from the request without the whitelist test
sortByUnchecked(query) ==
  IF hasCursorOf(query) THEN "serviceDate"
  ELSE IF query.sortBy # "" THEN query.sortBy ELSE "serviceDate"

sortByOf(query) ==
  IF hasCursorOf(query) THEN "serviceDate"
  ELSE IF query.sortBy \in ALLOWED_SORT_FIELDS THEN query.sortBy ELSE "serviceDate"

sortDirOf(query) == IF query.sortDir = "asc" THEN 1 ELSE -1

pageOf(query) == IF query.page # 0 THEN query.page ELSE 1

pageSizeOf(query) == IF query.pageSize # 0 THEN query.pageSize ELSE DefaultPageSize

includeTotalOf(query) == query.includeTotal = "1" \/ query.includeTotal = "true"

\* cursorFilter built without the check of the parse result: a rejected
\* cursor becomes the position of the epoch
cursorFilterUnchecked(query) ==
  IF query.cursor = None \/ query.cursor = Some(<<>>) THEN None
  ELSE LET parsed == parseCursor(query.cursor[1])
       IN IF parsed = None
          THEN Some([dir |-> IF query.sortDir = "asc" THEN 1 ELSE -1, date |-> MkDate(0, 0),
                     id |-> [i \in 1..OidBytes |-> 0]])
          ELSE Some([dir |-> IF query.sortDir = "asc" THEN 1 ELSE -1, date |-> parsed[1].date,
                     id |-> parsed[1].id])

\* cursorFilter: None, or the direction and position of the $or predicate
cursorFilterOf(query) ==
  IF query.cursor = None \/ query.cursor = Some(<<>>) THEN None
  ELSE LET parsed == parseCursor(query.cursor[1])
       IN IF parsed = None THEN None
          ELSE Some([dir |-> sortDirOf(query), date |-> parsed[1].date, id |-> parsed[1].id])

\* The $or predicate of cursorFilter.  $lt and $gt against a Date match only
\* fields that hold a Date, and equality with a Date likewise.
CursorMatches(cf, c) ==
  /\ IsDate(c.serviceDate)
  /\ IF cf.dir = -1
     THEN \/ CmpDate(c.serviceDate, cf.date) < 0
          \/ (c.serviceDate = cf.date /\ CmpOid(c._id, cf.id) < 0)
     ELSE \/ CmpDate(c.serviceDate, cf.date) > 0
          \/ (c.serviceDate = cf.date /\ CmpOid(c._id, cf.id) > 0)

\* String.prototype.trim for strings whose only white space is the space
RECURSIVE TrimStart(_)
TrimStart(s) == IF s # <<>> /\ Head(s) = " " THEN TrimStart(Tail(s)) ELSE s

RECURSIVE TrimEnd(_)
TrimEnd(s) == IF s # <<>> /\ s[Len(s)] = " " THEN TrimEnd(SubSeq(s, 1, Len(s) - 1)) ELSE s

Trim(s) == TrimEnd(TrimStart(s))

\* query.codes.split(',').map(trim).filter(Boolean)
codesOf(query) ==
  LET parts == Split(query.codes, ",")
  IN SelectSeq([i \in DOMAIN parts |-> Trim(parts[i])], LAMBDA code : code # <<>>)

\* $or of procedureCodes $in codes and diagnosisCodes $in codes
CodesMatch(codes, c) ==
  \E i \in DOMAIN codes : codes[i] \in Range(c.procedureCodes) \cup Range(c.diagnosisCodes)

UpperLetters == <<"A", "B", "C", "D", "E", "F", "G", "H", "I", "J", "K", "L", "M",
                  "N", "O", "P", "Q", "R", "S", "T", "U", "V", "W", "X", "Y", "Z">>
LowerLetters == <<"a", "b", "c", "d", "e", "f", "g", "h", "i", "j", "k", "l", "m",
                  "n", "o", "p", "q", "r", "s", "t", "u", "v", "w", "x", "y", "z">>

LowerChar(ch) ==
  IF \E i \in DOMAIN UpperLetters : UpperLetters[i] = ch
  THEN LowerLetters[CHOOSE i \in DOMAIN UpperLetters : UpperLetters[i] = ch]
  ELSE ch

\* the terms of a text: its words between spaces, compared without case
TermsOf(text) ==
  { [i \in DOMAIN w |-> LowerChar(w[i])] : w \in Range(Split(text, " ")) } \ {<<>>}

\* $text $search on the text index of searchText: a document matches when
\* it holds at least one of the terms searched for (words are taken between
\* spaces; stemming, phrases and negated terms are not drawn)
TextMatches(q, c) == TermsOf(q) \cap TermsOf(c.searchText) # {}

\* the conditions of the request with the amount bounds exclusive
BaseMatchesExclusive(query, c) ==
  /\ (query.status # "" => c.status = query.status)
  /\ (query.region # "" => c.memberRegion = query.region)
  /\ (query.providerSpecialty # "" => c.providerSpecialty = query.providerSpecialty)
  /\ (query.startDate # <<>> =>
        IsDate(c.serviceDate) /\ CmpDate(c.serviceDate, ParseDate(query.startDate)) >= 0)
  /\ (query.endDate # <<>> =>
        IsDate(c.serviceDate) /\ CmpDate(c.serviceDate, ParseDate(query.endDate)) <= 0)
  /\ (query.minAmount # None => c.totalAmount > query.minAmount[1])
  /\ (query.maxAmount # None => c.totalAmount < query.maxAmount[1])
  /\ (query.codes # <<>> /\ codesOf(query) # <<>> => CodesMatch(codesOf(query), c))
  /\ (query.q # <<>> => TextMatches(query.q, c))

\* baseFilter and the code and text conditions of andFilters: the conditions
\* of the request other than the cursor.  $gte and $lte against a Date match
\* only fields that hold a Date.
BaseMatches(query, c) ==
  /\ (query.status # "" => c.status = query.status)
  /\ (query.region # "" => c.memberRegion = query.region)
  /\ (query.providerSpecialty # "" => c.providerSpecialty = query.providerSpecialty)
  /\ (query.startDate # <<>> =>
        IsDate(c.serviceDate) /\ CmpDate(c.serviceDate, ParseDate(query.startDate)) >= 0)
  /\ (query.endDate # <<>> =>
        IsDate(c.serviceDate) /\ CmpDate(c.serviceDate, ParseDate(query.endDate)) <= 0)
  /\ (query.minAmount # None => c.totalAmount >= query.minAmount[1])
  /\ (query.maxAmount # None => c.totalAmount <= query.maxAmount[1])
  /\ (query.codes # <<>> /\ codesOf(query) # <<>> => CodesMatch(codesOf(query), c))
  /\ (query.q # <<>> => TextMatches(query.q, c))

\* filter: the conjunction of andFilters
FilterMatches(query, c) ==
  /\ BaseMatches(query, c)
  /\ (cursorFilterOf(query) # None => CursorMatches(cursorFilterOf(query)[1], c))

\* collection.find(filter)
Find(coll, query) == {c \in coll : FilterMatches(query, c)}

\* a count taken without the filter
CountAllDocuments(coll, query) == Cardinality(coll)

\* collection.countDocuments(filter)
CountDocuments(coll, query) == Cardinality(Find(coll, query))

SortSpecOf(query) ==
  IF hasCursorOf(query)
  THEN [fields |-> <<"serviceDate", "_id">>, dir |-> sortDirOf(query)]
  ELSE [fields |-> <<sortByOf(query)>>, dir |-> sortDirOf(query)]

\* cursor.skip(n).limit(m).toArray() on the sorted matches
SkipLimit(sorted, n, m) ==
  IF n >= Len(sorted) THEN <<>> ELSE Slice0(SubSeq(sorted, n + 1, Len(sorted)), m)

\* The response of listClaims, given the collection and the order in which
\* find(filter).sort(...) delivers the matching documents.
listClaims(query, coll, sorted) ==
  LET hasCursor == hasCursorOf(query)
      pageSize == pageSizeOf(query)
      page == pageOf(query)
      results == Slice0(sorted, pageSize + 1)
      hasMoreC == Len(results) > pageSize
      itemsC == IF hasMoreC THEN Slice0(results, pageSize) ELSE results
      nextCursorC ==
        IF hasMoreC /\ itemsC # <<>> /\ IsDate(itemsC[Len(itemsC)].serviceDate)
        THEN Some(BuildCursor(itemsC[Len(itemsC)].serviceDate, itemsC[Len(itemsC)]._id))
        ELSE None
      itemsO == SkipLimit(sorted, (page - 1) * pageSize, pageSize)
      totalO == IF includeTotalOf(query) THEN Some(CountDocuments(coll, query)) ELSE None
  IN [data |-> IF hasCursor THEN itemsC ELSE itemsO,
      meta |-> [page |-> page,
                pageSize |-> pageSize,
                total |-> IF hasCursor THEN None ELSE totalO,
                sortBy |-> sortByOf(query),
                sortDir |-> IF sortDirOf(query) = 1 THEN "asc" ELSE "desc",
                hasMore |-> IF hasCursor THEN Some(hasMoreC) ELSE None,
                nextCursor |-> IF hasCursor THEN nextCursorC ELSE None]]

(***************************************************************************)
(* State                                                                   *)
(***************************************************************************)
\* Largest number of pages one walk of the client fetches
MaxPages == 6

NoQuery == MkQuery(NoFilter, "", "", 0, 0, "", None)

WalkIdle ==
  [active |-> FALSE, query |-> NoQuery, cursor |-> None, hasMore |-> TRUE,
   pages |-> <<>>, start |-> {}]

CodecIdle == [phase |-> "idle", date |-> NullDate, id |-> Oid(0), str |-> <<>>, out |-> None]

InitClaims ==
  /\ claims = {}
  /\ walk = WalkIdle
  /\ resp = None
  /\ off = None
  /\ codec = CodecIdle

(***************************************************************************)
(* Ingestion: a document is added to the claims collection                 *)
(***************************************************************************)
InsertClaim(c) ==
  /\ Cardinality(claims) < MaxClaims
  /\ c \notin claims
  /\ claims' = claims \cup {c}
  /\ resp' = None
  /\ off' = None
  /\ UNCHANGED <<walk, codec, summaryVars>>

(***************************************************************************)
(* One listClaims request and its response                                 *)
(***************************************************************************)
\* Filters a client sends: none, one condition of each kind, a range of
\* amounts with a status, a list of codes with blanks and an empty entry, a
\* list of codes that is empty after trimming, a search for two terms, an
\* upper date bound alone, and a region with an amount range that starts at 0
FilterChoices ==
  { NoFilter,
    [NoFilter EXCEPT !.status = "denied"],
    [NoFilter EXCEPT !.status = "denied", !.minAmount = Some(100), !.maxAmount = Some(100)],
    [NoFilter EXCEPT !.minAmount = Some(250)],
    [NoFilter EXCEPT !.region = "Northeast"],
    [NoFilter EXCEPT !.providerSpecialty = "Oncology"],
    [NoFilter EXCEPT !.startDate = ToISOString(DateA), !.endDate = ToISOString(DateA)],
    [NoFilter EXCEPT !.codes = <<" ">> \o Cpt99213 \o <<",", " ", ",">> \o IcdI10],
    [NoFilter EXCEPT !.codes = <<",", " ">>],
    [NoFilter EXCEPT !.q = <<"K", "I", "M", " ">> \o Cpt99213],
    [NoFilter EXCEPT !.endDate = ToISOString(DateB)],
    [NoFilter EXCEPT !.region = "Midwest", !.minAmount = Some(0), !.maxAmount = Some(100)] }

StatusFilters == { NoFilter, [NoFilter EXCEPT !.status = "denied"] }

OffsetQueries ==
  { MkQuery(f, sb, sd, pg, ps, it, None) :
      f \in FilterChoices, sb \in {"totalAmount", "memberRegion", "bogus"},
      sd \in {"asc", "desc"}, pg \in {0, 2}, ps \in {0, 1, 2}, it \in {"true", "0"} }

\* Cursor strings a client may send: the empty string, strings listClaims
\* built, and strings parseCursor rejects (no separator, no id, no date, an id
\* that is not 24 hex digits, a timestamp that is not a date)
ValidCursors == { BuildCursor(c.serviceDate, c._id) : c \in {d \in ClaimPool : IsDate(d.serviceDate)} }

GarbageCursors ==
  { <<"a", "b", "c">>,
    <<"|">>,
    ToISOString(DateA) \o <<"|">>,
    <<"|">> \o OidToString(Oid(2)),
    ToISOString(DateA) \o <<"|", "z", "z">>,
    <<"n", "o", "p", "e", "|">> \o OidToString(Oid(2)) }

CursorStrings == {<<>>} \cup ValidCursors \cup GarbageCursors

CursorQueries ==
  { MkQuery(f, x[1], sd, x[2], ps, x[3], Some(cur)) :
      f \in StatusFilters, x \in {<<"bogus", 0, "0">>, <<"totalAmount", 2, "1">>},
      sd \in {"asc", "desc"}, ps \in {1, 2}, cur \in CursorStrings }

Ids(items) == [i \in DOMAIN items |-> items[i]._id]

\* listClaims answers one request: resp is the response computed from the
\* collection as it is now (None when no request is being answered)
ListClaims(query) ==
  /\ resp = None
  /\ \E sorted \in SortedOrders(Find(claims, query), SortSpecOf(query)) :
       resp' = Some([query |-> query, res |-> listClaims(query, claims, sorted)])
  /\ UNCHANGED <<claims, walk, off, codec, summaryVars>>

\* the controller has sent the response
Respond ==
  /\ resp # None
  /\ resp' = None
  /\ UNCHANGED <<claims, walk, off, codec, summaryVars>>

(***************************************************************************)
(* A client reading pages in offset mode                                   *)
(***************************************************************************)
\* Highest page number the offset client asks for
MaxPageNo == 3

PagedQueries ==
  { MkQuery(f, sb, sd, pg, ps, "0", None) :
      f \in StatusFilters, sb \in {"totalAmount", "status", "bogus"},
      sd \in {"asc", "desc"}, pg \in 1..MaxPageNo, ps \in {1, 2} }

\* the request without its page number
BaseOf(query) == [query EXCEPT !.page = 0]

\* off: the pages the client has fetched of one query (requests that differ
\* only in page) while the collection did not change
OffsetPage(query) ==
  /\ \/ off = None
     \/ off # None /\ off[1].query = BaseOf(query) /\ pageOf(query) \notin DOMAIN off[1].pages
  /\ \E sorted \in SortedOrders(Find(claims, query), SortSpecOf(query)) :
       LET res == listClaims(query, claims, sorted)
       IN off' = IF off = None
                 THEN Some([query |-> BaseOf(query), pages |-> (pageOf(query) :> Ids(res.data))])
                 ELSE Some([off[1] EXCEPT !.pages = (pageOf(query) :> Ids(res.data)) @@ @])
  /\ UNCHANGED <<claims, walk, resp, codec, summaryVars>>

\* the client turns to another query
EndPaging ==
  /\ off # None
  /\ off' = None
  /\ UNCHANGED <<claims, walk, resp, codec, summaryVars>>

(***************************************************************************)
(* The client's walk: loadClaims(reset) of App.tsx                         *)
(***************************************************************************)
WalkQueries ==
  { MkQuery(f, "", sd, 0, ps, "0", None) :
      f \in StatusFilters, sd \in {"asc", "desc"}, ps \in {1, 2} }

\* fetchClaims with the cursor parameter the client sends
Fetch(query, cursorParam) ==
  LET q == [query EXCEPT !.cursor = Some(cursorParam)]
  IN listClaims(q, claims, CHOOSE s \in SortedOrders(Find(claims, q), SortSpecOf(q)) : TRUE)

\* loadClaims(true): the list is cleared and the first page is fetched with cursor ''
StartWalk(query) ==
  LET res == Fetch(query, <<>>)
  IN /\ walk' = [active |-> TRUE, query |-> query,
                 cursor |-> res.meta.nextCursor,
                 hasMore |-> (res.meta.hasMore = Some(TRUE)),
                 pages |-> <<Ids(res.data)>>,
                 start |-> {c._id : c \in {d \in claims : BaseMatches(query, d)}}]
     /\ UNCHANGED <<claims, resp, off, codec, summaryVars>>

\* loadClaims(false): returns at once when hasMore is false, else fetches with
\* cursor ?? '' and appends the page
LoadMore ==
  /\ walk.active
  /\ walk.hasMore
  /\ Len(walk.pages) < MaxPages
  /\ LET res == Fetch(walk.query, IF walk.cursor = None THEN <<>> ELSE walk.cursor[1])
     IN walk' = [walk EXCEPT !.cursor = res.meta.nextCursor,
                             !.hasMore = (res.meta.hasMore = Some(TRUE)),
                             !.pages = Append(@, Ids(res.data))]
  /\ UNCHANGED <<claims, resp, off, codec, summaryVars>>

(***************************************************************************)
(* The client's claims list: the state of App.tsx that loadClaims reads    *)
(* and writes, with its requests in flight                                 *)
(***************************************************************************)
\* Largest number of requests the client sends
MaxRequests == 3

\* claims, cursor, hasMore, loading, loadingMore and claimsAbort (the number
\* of the request whose AbortController is stored, 0 for null) of App.tsx,
\* params, the fetchClaims calls that have not yet settled, and the queries
\* whose responses the list, cursor and hasMore now stand for
ClientIdle ==
  [params |-> NoQuery, claims |-> <<>>, cursor |-> None, hasMore |-> TRUE,
   loading |-> FALSE, loadingMore |-> FALSE, claimsAbort |-> 0,
   inflight |-> <<>>, sent |-> 0, from |-> {}]

\* the filters the user chooses between
ClientQueries == { MkQuery(f, "", "", 0, 1, "0", None) : f \in StatusFilters }

\* loadClaims up to its await: the controller is stored and fetchClaims is
\* called with the parameters and the cursor of this call
SendRequest(c, reset, query) ==
  LET no == c.sent + 1
  IN [c EXCEPT !.sent = no, !.claimsAbort = no,
               !.inflight = Append(@, [no |-> no, reset |-> reset, query |-> query,
                                       cursor |-> IF reset \/ c.cursor = None THEN <<>> ELSE c.cursor[1]])]

\* the finally block of loadClaims
Finally(c, no) ==
  [c EXCEPT !.loading = FALSE, !.loadingMore = FALSE, !.claimsAbort = 0,
            !.inflight = SelectSeq(@, LAMBDA r : r.no # no)]

\* params changes (a filter change after its debounce, or the mount), or the
\* refresh button is pressed with no controller stored: loadClaims(true)
\* clears the list and sends the request of the first page
LoadClaimsReset(query) ==
  /\ client.sent < MaxRequests
  /\ query # client.params \/ client.claimsAbort = 0
  /\ client' = SendRequest([client EXCEPT !.params = query, !.loading = TRUE, !.claims = <<>>,
                                          !.cursor = None, !.hasMore = TRUE, !.from = {}],
                           TRUE, query)
  /\ UNCHANGED <<queryVars, updaterVars, bc, reads>>

\* the list renders items near its end with hasMore and no load-more in
\* progress: onLoadMore calls loadClaims(false)
LoadClaimsMore ==
  /\ client.sent < MaxRequests
  /\ client.claims # <<>>
  /\ client.hasMore
  /\ ~client.loadingMore
  /\ client' = SendRequest([client EXCEPT !.loadingMore = TRUE], FALSE, client.params)
  /\ UNCHANGED <<queryVars, updaterVars, bc, reads>>

\* a fetchClaims call resolves: the rows replace the list (reset) or are
\* appended to it, cursor and hasMore are taken from the response
LoadClaimsResolves(i) ==
  /\ i \in DOMAIN client.inflight
  /\ LET r == client.inflight[i]
         res == Fetch(r.query, r.cursor)
     IN client' = Finally([client EXCEPT !.claims = IF r.reset THEN Ids(res.data) ELSE @ \o Ids(res.data),
                                         !.cursor = res.meta.nextCursor,
                                         !.hasMore = (res.meta.hasMore = Some(TRUE)),
                                         !.from = @ \cup {r.query}],
                          r.no)
  /\ UNCHANGED <<queryVars, updaterVars, bc, reads>>

\* a fetchClaims call rejects (a network error, a response that is not ok,
\* or claimsAbort.abort() of the stop button, whose AbortError is caught):
\* only the finally block runs
LoadClaimsRejects(i) ==
  /\ i \in DOMAIN client.inflight
  /\ client' = Finally(client, client.inflight[i].no)
  /\ UNCHANGED <<queryVars, updaterVars, bc, reads>>

(***************************************************************************)
(* Cursor codec on its own: a cursor is built, then parsed                 *)
(***************************************************************************)
CodecDates ==
  { MkDate(0, 0), MkDate(0, 1), DateA, DateB,
    MkDate(DaysFromCivil(1999, 12, 31), MsPerDay - 1),
    MkDate(DaysFromCivil(2000, 2, 29), 3723004),
    MkDate(DaysFromCivil(2023, 3, 1), 43200000),
    MkDate(DaysFromCivil(2100, 2, 28), 59999),
    MkDate(DaysFromCivil(2025, 10, 9), 999),
    MkDate(DaysFromCivil(9999, 12, 31), MsPerDay - 1) }

CodecIds ==
  { Oid(0), Oid(9), Oid(10), Oid(255), [i \in 1..OidBytes |-> 255],
    [i \in 1..OidBytes |-> 16 * i + i], [i \in 1..OidBytes |-> 0] }

EncodeCursor(date, id) ==
  /\ codec.phase = "idle"
  /\ codec' = [codec EXCEPT !.phase = "encoded", !.date = date, !.id = id,
                            !.str = BuildCursor(date, id)]
  /\ UNCHANGED <<claims, walk, resp, off, summaryVars>>

DecodeCursor ==
  /\ codec.phase = "encoded"
  /\ codec' = [codec EXCEPT !.phase = "decoded", !.out = parseCursor(codec.str)]
  /\ UNCHANGED <<claims, walk, resp, off, summaryVars>>

(***************************************************************************)
(* SummaryUpdaterService: the change handler and applyInsert               *)
(***************************************************************************)
\* Largest number of change events the claims feed delivers in a run
MaxEvents == 2

EmptyFn == [x \in {} |-> 0]

\* fullDocument of an insert event (ClaimDoc): totalAmount is None when it
\* is absent or not a number, status is "" when absent, empty or not a
\* string, procedureCodes is None when absent or not an array and holds ""
\* for an entry that is empty or not a string.
MkDoc(amount, status, codes) == [totalAmount |-> amount, status |-> status, procedureCodes |-> codes]

DocPool ==
  { MkDoc(Some(250), "approved", Some(<<"99213">>)),
    MkDoc(Some(100), "denied", Some(<<"99213", "99214">>)),
    MkDoc(Some(75), "approved", Some(<<"99214", "99214">>)),
    MkDoc(Some(40), "denied", Some(<<"", "99213">>)),
    MkDoc(None, "", None) }

\* const totalAmount = typeof doc.totalAmount === 'number' ? doc.totalAmount : 0
AmountOf(doc) == IF doc.totalAmount # None THEN doc.totalAmount[1] ELSE 0

\* const status = typeof doc.status === 'string' && doc.status ? doc.status : 'unknown'
StatusOf(doc) == IF doc.status # "" THEN doc.status ELSE "unknown"

\* const procedureCodes = Array.isArray(...) ? doc.procedureCodes.filter(...) : []
CodesOf(doc) ==
  IF doc.procedureCodes # None
  THEN SelectSeq(doc.procedureCodes[1], LAMBDA code : code # "")
  ELSE <<>>

RECURSIVE BagOfSeq(_)
BagOfSeq(s) == IF s = <<>> THEN EmptyBag ELSE BagOfSeq(Tail(s)) (+) SetToBag({Head(s)})

\* The stats_summary document 'latest': data is the object of the legacy
\* shape, totals and statusCounts are those of the current shape; each is None
\* when the document does not have the field.  meta.generatedAt is the clock
\* reading of the write (0 when absent), meta.durationMs is None when absent,
\* meta.source is "" when absent.
MkMeta(generatedAt, durationMs, source) ==
  [generatedAt |-> generatedAt, durationMs |-> durationMs, source |-> source]

NoMeta == MkMeta(0, None, "")

MkSummary(data, totals, statusCounts, meta) ==
  [data |-> data, totals |-> totals, statusCounts |-> statusCounts, meta |-> meta]

\* the document an upsert starts from when there is none
EmptySummary == MkSummary(None, None, None, NoMeta)

MkTotals(totalClaims, totalAmount) == [totalClaims |-> totalClaims, totalAmount |-> totalAmount]

\* Date.now() - start: the durations a run may measure
Durations == {0, 7}

\* { ...fn, [key]: fn[key] + n } with a missing key counted as 0
IncKey(fn, key, n) ==
  IF key \in DOMAIN fn THEN [fn EXCEPT ![key] = @ + n] ELSE (key :> n) @@ fn

\* the summary update with totalAmount written by $set instead of $inc
IncSummaryAmountSet(sum, amount, status, at, dur) ==
  LET old == IF sum = None THEN EmptySummary ELSE sum[1]
      oldTotals == IF old.totals = None THEN MkTotals(0, 0) ELSE old.totals[1]
      oldCounts == IF old.statusCounts = None THEN EmptyFn ELSE old.statusCounts[1]
  IN Some([old EXCEPT !.totals = Some(MkTotals(oldTotals.totalClaims + 1, amount)),
                      !.statusCounts = Some(IncKey(oldCounts, status, 1)),
                      !.meta = MkMeta(at, Some(dur), "change-stream")])

\* the summary update without upsert: an absent document stays absent
IncSummaryNoUpsert(sum, amount, status, at, dur) ==
  IF sum = None THEN None
  ELSE LET old == sum[1]
           oldTotals == IF old.totals = None THEN MkTotals(0, 0) ELSE old.totals[1]
           oldCounts == IF old.statusCounts = None THEN EmptyFn ELSE old.statusCounts[1]
       IN Some([old EXCEPT !.totals = Some(MkTotals(oldTotals.totalClaims + 1, oldTotals.totalAmount + amount)),
                           !.statusCounts = Some(IncKey(oldCounts, status, 1)),
                           !.meta = MkMeta(at, Some(dur), "change-stream")])

\* stats_summary.updateOne({_id}, {$inc: inc, $set: meta}, {upsert: true}):
\* one atomic write; $inc creates a missing document, object or counter
IncSummary(sum, amount, status, at, dur) ==
  LET old == IF sum = None THEN EmptySummary ELSE sum[1]
      oldTotals == IF old.totals = None THEN MkTotals(0, 0) ELSE old.totals[1]
      oldCounts == IF old.statusCounts = None THEN EmptyFn ELSE old.statusCounts[1]
  IN Some([old EXCEPT !.totals = Some(MkTotals(oldTotals.totalClaims + 1, oldTotals.totalAmount + amount)),
                      !.statusCounts = Some(IncKey(oldCounts, status, 1)),
                      !.meta = MkMeta(at, Some(dur), "change-stream")])

\* the facet update with count written by $set instead of $inc
IncFacetSet(fc, code) ==
  IF code \in DOMAIN fc THEN [fc EXCEPT ![code] = 1] ELSE (code :> 1) @@ fc

\* one updateOne of the bulkWrite: {_id: code}, {$inc: {count: 1}}, upsert
IncFacet(fc, code) ==
  IF code \in DOMAIN fc THEN [fc EXCEPT ![code] = @ + 1] ELSE (code :> 1) @@ fc

\* One applyInsert call: where it stands (pc), the bulkWrite operations not
\* yet executed (pending), what it has written so far (writeNo: 0, or k when
\* its summary update was the k-th one the store applied; wrote: the facet
\* increments) and whether a write of it threw (failed)
NewCall(doc) ==
  [doc |-> doc, pc |-> "summary", pending |-> EmptyBag, wrote |-> EmptyBag,
   writeNo |-> 0, failed |-> FALSE]

NoDoc == MkDoc(None, "", None)

InitSummary ==
  /\ summary = None
  /\ facets = EmptyFn
  /\ calls = <<>>
  /\ clock = 0

\* changeStream.on('change'): an event with a fullDocument starts applyInsert
\* and does not wait for it
OnChange(doc) ==
  /\ Len(calls) < MaxEvents
  /\ calls' = Append(calls, NewCall(doc))
  /\ UNCHANGED <<summary, facets, clock, queryVars, wireVars, streamVars, lifeVars>>

\* changeStream.on('change'): an event without fullDocument is dropped
OnChangeNoDocument ==
  /\ Len(calls) < MaxEvents
  /\ calls' = Append(calls, [NewCall(NoDoc) EXCEPT !.pc = "skipped"])
  /\ UNCHANGED <<summary, facets, clock, queryVars, wireVars, streamVars, lifeVars>>

\* what a call does after its last bulkWrite operation has been executed
AfterFacets(call) ==
  IF call.pending # EmptyBag THEN call
  ELSE [call EXCEPT !.pc = IF call.failed THEN "failed" ELSE "done"]

\* applyInsert: the summary update succeeds; the bulkWrite is issued when
\* there is at least one valid code.  Every write of the summary reads the
\* clock later than the write before it.
ApplySummaryWrite(i) ==
  /\ i \in DOMAIN calls
  /\ calls[i].pc = "summary"
  /\ clock' = clock + 1
  /\ \E dur \in Durations :
       summary' = IncSummary(summary, AmountOf(calls[i].doc), StatusOf(calls[i].doc), clock + 1, dur)
  /\ calls' = [calls EXCEPT ![i] =
                 AfterFacets([@ EXCEPT !.pc = "facets",
                                       !.writeNo = 1 + Cardinality({j \in DOMAIN calls : calls[j].writeNo > 0}),
                                       !.pending = BagOfSeq(CodesOf(calls[i].doc))])]
  /\ UNCHANGED <<facets, queryVars, wireVars, streamVars, lifeVars>>

\* a failed summary update that tears the subscription down and arms a retry
ApplySummaryFailsStops(i) ==
  /\ i \in DOMAIN calls
  /\ calls[i].pc = "summary"
  /\ calls' = [calls EXCEPT ![i] = [@ EXCEPT !.pc = "failed", !.failed = TRUE]]
  /\ upd' = [upd EXCEPT !.retryTimer = Some(5000)]
  /\ UNCHANGED <<summary, facets, clock, queryVars, wireVars, streams, starts, env, mig, claimDocs, boot>>

\* applyInsert: the summary update throws; the call ends there
ApplySummaryFails(i) ==
  /\ i \in DOMAIN calls
  /\ calls[i].pc = "summary"
  /\ calls' = [calls EXCEPT ![i] = [@ EXCEPT !.pc = "failed", !.failed = TRUE]]
  /\ UNCHANGED <<summary, facets, clock, queryVars, wireVars, streamVars, lifeVars>>

\* bulkWrite({ordered: false}): one of the remaining updateOne operations runs
ApplyFacetWrite(i, code) ==
  /\ i \in DOMAIN calls
  /\ calls[i].pc = "facets"
  /\ BagIn(code, calls[i].pending)
  /\ facets' = IncFacet(facets, code)
  /\ calls' = [calls EXCEPT ![i] =
                 AfterFacets([@ EXCEPT !.pending = @ (-) SetToBag({code}),
                                       !.wrote = @ (+) SetToBag({code})])]
  /\ UNCHANGED <<summary, clock, queryVars, wireVars, streamVars, lifeVars>>

\* bulkWrite({ordered: false}): one operation fails; the others still run and
\* the call rejects at the end
ApplyFacetFails(i, code) ==
  /\ i \in DOMAIN calls
  /\ calls[i].pc = "facets"
  /\ BagIn(code, calls[i].pending)
  /\ calls' = [calls EXCEPT ![i] =
                 AfterFacets([@ EXCEPT !.pending = @ (-) SetToBag({code}), !.failed = TRUE])]
  /\ UNCHANGED <<summary, facets, clock, queryVars, wireVars, streamVars, lifeVars>>

(***************************************************************************)
(* SummaryUpdaterService.migrateLegacySummaryIfNeeded                      *)
(***************************************************************************)
\* Largest number of times the migration is run
MaxMigrations == 3

\* summary.data of the legacy shape: statusBreakdown is None when the
\* document has no array there, otherwise the list of its entries; the _id of
\* an entry is "" when it is null or empty
MkLegacyData(totalClaims, totalAmount, statusBreakdown) ==
  [totalClaims |-> totalClaims, totalAmount |-> totalAmount, statusBreakdown |-> statusBreakdown,
   topProcedures |-> None]

MkEntry(id, count) == [_id |-> id, count |-> count]

\* Object.fromEntries over the list of [key, value] pairs: a key that occurs
\* again takes the later value
RECURSIVE FromEntries(_)
FromEntries(entries) ==
  IF entries = <<>> THEN EmptyFn
  ELSE LET last == entries[Len(entries)]
           rest == FromEntries(SubSeq(entries, 1, Len(entries) - 1))
       IN (last[1] :> last[2]) @@ rest

\* item => [String(item._id || 'unknown'), Number(item.count) || 0]
EntryOf(item) == <<IF item._id # "" THEN item._id ELSE "unknown", item.count>>

StatusCountsOf(statusBreakdown) ==
  FromEntries([k \in DOMAIN statusBreakdown |-> EntryOf(statusBreakdown[k])])

\* Summary documents the store may hold when the service starts: none, the
\* documents the summary job of the earlier version wrote (data and meta
\* without source), documents of the SummaryDoc type that hold data without a
\* statusBreakdown array or with only one of totals and statusCounts, and
\* documents of the current shape with and without the legacy data
LegacyMeta == MkMeta(1, Some(7), "")

SummaryPool ==
  { None,
    Some(MkSummary(Some(MkLegacyData(3, 425, Some(<<MkEntry("approved", 2), MkEntry("denied", 1)>>))),
                   None, None, LegacyMeta)),
    Some(MkSummary(Some(MkLegacyData(3, 300, Some(<<MkEntry("unknown", 2), MkEntry("", 1)>>))),
                   None, None, LegacyMeta)),
    Some(MkSummary(Some(MkLegacyData(0, 0, Some(<<>>))), None, None, LegacyMeta)),
    Some(MkSummary(Some(MkLegacyData(2, 140, None)), None, None, LegacyMeta)),
    Some(MkSummary(Some(MkLegacyData(2, 140, Some(<<MkEntry("paid", 2)>>))),
                   Some(MkTotals(3, 240)), None, LegacyMeta)),
    Some(MkSummary(Some(MkLegacyData(1, 100, Some(<<MkEntry("denied", 1)>>))),
                   Some(MkTotals(2, 350)), Some(("denied" :> 1) @@ ("approved" :> 1)),
                   MkMeta(1, Some(0), "change-stream"))),
    Some(MkSummary(None, Some(MkTotals(1, 250)), Some("approved" :> 1), MkMeta(1, Some(7), "bootstrap"))) }

\* The $set document of the migration for the document read, None when the
\* migration returns without writing
MigrationSet(read) ==
  IF read = None \/ read[1].data = None THEN None
  ELSE LET doc == read[1]
           needsTotals == doc.totals = None
           needsStatusCounts == doc.statusCounts = None
           totals == IF needsTotals
                     THEN Some(MkTotals(doc.data[1].totalClaims, doc.data[1].totalAmount))
                     ELSE None
           statusCounts == IF needsStatusCounts /\ doc.data[1].statusBreakdown # None
                           THEN Some(StatusCountsOf(doc.data[1].statusBreakdown[1]))
                           ELSE None
       IN IF ~needsTotals /\ ~needsStatusCounts THEN None
          ELSE Some([totals |-> totals, statusCounts |-> statusCounts])

\* stats_summary.updateOne({_id}, {$set: set}): no upsert, so an absent
\* document stays absent; the fields not named in set are kept
ApplyMigrationSet(sum, set, at) ==
  IF sum = None THEN None
  ELSE Some([sum[1] EXCEPT !.totals = IF set.totals # None THEN set.totals ELSE @,
                           !.statusCounts = IF set.statusCounts # None THEN set.statusCounts ELSE @,
                           !.meta = [@ EXCEPT !.generatedAt = at, !.source = "legacy-migration"]])

\* mig: the migration of the instance: where it stands (pc), the $set it is
\* about to write (set), and for each run that has ended the document at its
\* start and at its end, whether it wrote and whether a store call threw
MigIdle == [pc |-> "idle", set |-> None, before |-> None, runs |-> <<>>]

MkRun(before, after, wrote, threw) ==
  [before |-> before, after |-> after, wrote |-> wrote, threw |-> threw]

InitMigration == mig = MigIdle

\* the service starts: onModuleInit awaits migrateLegacySummaryIfNeeded
MigrateCall ==
  /\ mig.pc = "idle"
  /\ Len(mig.runs) < MaxMigrations
  /\ mig' = [mig EXCEPT !.pc = "findOne", !.before = summary]
  /\ UNCHANGED <<summary, facets, calls, clock, queryVars, wireVars, streamVars, bootVars>>

\* findOne, the tests of the shape and the computation of set
MigrateFindOne ==
  /\ mig.pc = "findOne"
  /\ mig' = IF MigrationSet(summary) = None
            THEN [mig EXCEPT !.pc = "idle",
                             !.runs = Append(@, MkRun(mig.before, summary, FALSE, FALSE))]
            ELSE [mig EXCEPT !.pc = "updateOne", !.set = MigrationSet(summary)]
  /\ UNCHANGED <<summary, facets, calls, clock, queryVars, wireVars, streamVars, bootVars>>

\* updateOne with the $set computed from the document read
MigrateUpdateOne ==
  /\ mig.pc = "updateOne"
  /\ summary' = ApplyMigrationSet(summary, mig.set[1], clock + 1)
  /\ clock' = clock + 1
  /\ mig' = [mig EXCEPT !.pc = "idle", !.set = None,
                        !.runs = Append(@, MkRun(mig.before, summary', summary # None, FALSE))]
  /\ UNCHANGED <<facets, calls, queryVars, wireVars, streamVars, bootVars>>

\* getDb, findOne or updateOne throws: onModuleInit swallows the rejection
MigrateFails ==
  /\ mig.pc \in {"findOne", "updateOne"}
  /\ mig' = [mig EXCEPT !.pc = "idle", !.set = None,
                        !.runs = Append(@, MkRun(mig.before, summary, FALSE, TRUE))]
  /\ UNCHANGED <<summary, facets, calls, clock, queryVars, wireVars, streamVars, bootVars>>

(***************************************************************************)
(* SummaryUpdaterService.bootstrapIfNeeded                                 *)
(***************************************************************************)
\* Largest number of documents in the claims collection the updater reads
MaxDocs == 2

\* Largest number of calls of bootstrapIfNeeded
MaxBootstraps == 2

\* claims.countDocuments()
CountClaims(docs) == Len(docs)

\* $group {_id: null, total: {$sum: '$totalAmount'}}: no result for an empty
\* collection, and a totalAmount that is not a number adds nothing;
\* totalAmount[0]?.total || 0
SumAmounts(docs) == SeqSum([k \in DOMAIN docs |-> AmountOf(docs[k])])

\* $group {_id: '$status', count: {$sum: 1}}: one entry for each value of
\* status; the claims without a status form the group of _id null ("")
StatusGroups(docs) ==
  { MkEntry(st, Cardinality({k \in DOMAIN docs : docs[k].status = st})) :
      st \in {docs[k].status : k \in DOMAIN docs} }

\* $sort {count: -1}: the entries by decreasing count (entries of equal count
\* in an order that does not matter to what is built from the list)
RECURSIVE SortByCount(_)
SortByCount(entries) ==
  IF entries = {} THEN <<>>
  ELSE LET top == CHOOSE e \in entries : \A f \in entries : f.count <= e.count
       IN <<top>> \o SortByCount(entries \ {top})

\* $unwind '$procedureCodes': one element for each entry of each array, the
\* empty entries included; a claim without the array gives none
UnwoundCodes(docs) ==
  BagOfSeq(Flatten([k \in DOMAIN docs |->
                     IF docs[k].procedureCodes # None THEN docs[k].procedureCodes[1] ELSE <<>>]))

\* $group {_id: '$procedureCodes', count: {$sum: 1}} as the table of counters
ProcedureCounts(docs) ==
  LET bag == UnwoundCodes(docs)
  IN [code \in BagToSet(bag) |-> CopiesIn(code, bag)]

NoAggregates == [totalClaims |-> None, totalAmount |-> None, statusBreakdown |-> None, procedureCounts |-> None]

Aggregations == {"totalClaims", "totalAmount", "statusBreakdown", "procedureCounts"}

\* the result of one of the four aggregations of Promise.all
Aggregate(which, docs) ==
  IF which = "totalClaims" THEN CountClaims(docs)
  ELSE IF which = "totalAmount" THEN SumAmounts(docs)
  ELSE IF which = "statusBreakdown" THEN SortByCount(StatusGroups(docs))
  ELSE ProcedureCounts(docs)

\* the bootstrap adding its aggregates to the stored totals with $inc
SetBootstrapInc(sum, agg, at, dur) ==
  LET old == IF sum = None THEN EmptySummary ELSE sum[1]
      was == IF old.totals = None THEN MkTotals(0, 0) ELSE old.totals[1]
  IN Some([old EXCEPT !.totals = Some(MkTotals(was.totalClaims + agg.totalClaims[1],
                                               was.totalAmount + agg.totalAmount[1])),
                      !.statusCounts = Some(StatusCountsOf(agg.statusBreakdown[1])),
                      !.meta = MkMeta(at, Some(dur), "bootstrap")])

\* the $set of the bootstrap applied by updateOne with upsert: totals,
\* statusCounts and meta are replaced whole, other fields are kept
SetBootstrap(sum, agg, at, dur) ==
  LET old == IF sum = None THEN EmptySummary ELSE sum[1]
  IN Some([old EXCEPT !.totals = Some(MkTotals(agg.totalClaims[1], agg.totalAmount[1])),
                      !.statusCounts = Some(StatusCountsOf(agg.statusBreakdown[1])),
                      !.meta = MkMeta(at, Some(dur), "bootstrap")])

\* One call of bootstrapIfNeeded: where it stands (pc), the results of its
\* reads (sawSummary, hasProcedures, agg) and, for the record, the store at
\* the call (before) and at its end (after), the claims at the call and at
\* its end, and the store operations it made (reads of claims, writes)
MkBoot(pc, before, docs) ==
  [pc |-> pc, sawSummary |-> FALSE, hasProcedures |-> FALSE, agg |-> NoAggregates,
   before |-> before, after |-> None, docsBefore |-> docs, docsAfter |-> docs,
   reads |-> 0, claimReads |-> 0, writes |-> 0]

BootActive == {"findOne", "countDocuments", "aggregate", "deleteMany", "insertMany", "updateOne"}

BootEnded == {"skipped", "returned", "completed", "threw"}

Store == [summary |-> summary, facets |-> facets]

UpdIdle == [bootstrapRunning |-> FALSE, changeStream |-> 0, retryTimer |-> None, bootstrapTimer |-> None]

InitBootstrap ==
  /\ claimDocs = <<>>
  /\ upd = UpdIdle
  /\ boot = <<>>

\* a claim is inserted into the claims collection
InsertDoc(doc) ==
  /\ Len(claimDocs) < MaxDocs
  /\ claimDocs' = Append(claimDocs, doc)
  /\ UNCHANGED <<summary, facets, calls, clock, mig, upd, boot, queryVars, wireVars, streamVars>>

\* the entry of bootstrapIfNeeded without the test of the flag
BootstrapCallUnguarded ==
  /\ Len(boot) < MaxBootstraps
  /\ boot' = Append(boot, MkBoot("findOne", Some(Store), claimDocs))
  /\ upd' = [upd EXCEPT !.bootstrapRunning = TRUE]
  /\ UNCHANGED <<summary, facets, calls, clock, mig, claimDocs, queryVars, wireVars, streamVars>>

\* bootstrapIfNeeded is entered: it returns at once when a run is in
\* progress, otherwise it sets the flag and goes on to its first read
BootstrapCall ==
  /\ Len(boot) < MaxBootstraps
  /\ IF upd.bootstrapRunning
     THEN /\ boot' = Append(boot, [MkBoot("skipped", Some(Store), claimDocs) EXCEPT !.after = Some(Store)])
          /\ upd' = upd
     ELSE /\ boot' = Append(boot, MkBoot("findOne", Some(Store), claimDocs))
          /\ upd' = [upd EXCEPT !.bootstrapRunning = TRUE]
  /\ UNCHANGED <<summary, facets, calls, clock, mig, claimDocs, queryVars, wireVars, streamVars>>

\* the run ends: finally { this.bootstrapRunning = false }
EndBoot(run, pc, store, docs) == [run EXCEPT !.pc = pc, !.after = Some(store), !.docsAfter = docs]

\* stats_summary.findOne
BootstrapFindOne(i) ==
  /\ i \in DOMAIN boot
  /\ boot[i].pc = "findOne"
  /\ boot' = [boot EXCEPT ![i] = [@ EXCEPT !.pc = "countDocuments", !.sawSummary = summary # None,
                                           !.reads = @ + 1]]
  /\ UNCHANGED <<summary, facets, calls, clock, mig, claimDocs, upd, queryVars, wireVars, streamVars>>

\* the test without the count of the facet table
BootstrapCountIgnored(i) ==
  /\ i \in DOMAIN boot
  /\ boot[i].pc = "countDocuments"
  /\ IF boot[i].sawSummary
     THEN /\ boot' = [boot EXCEPT ![i] = EndBoot([@ EXCEPT !.reads = @ + 1], "returned", Store, claimDocs)]
          /\ upd' = [upd EXCEPT !.bootstrapRunning = FALSE]
     ELSE /\ boot' = [boot EXCEPT ![i] = [@ EXCEPT !.pc = "aggregate", !.reads = @ + 1]]
          /\ upd' = upd
  /\ UNCHANGED <<summary, facets, calls, clock, mig, claimDocs, queryVars, wireVars, streamVars>>

\* stats_procedure_counts.countDocuments({}, {limit: 1}) and the test: the
\* run returns when the summary exists and the table has a counter
BootstrapCount(i) ==
  /\ i \in DOMAIN boot
  /\ boot[i].pc = "countDocuments"
  /\ IF boot[i].sawSummary /\ DOMAIN facets # {}
     THEN /\ boot' = [boot EXCEPT ![i] = EndBoot([@ EXCEPT !.hasProcedures = TRUE, !.reads = @ + 1],
                                                 "returned", Store, claimDocs)]
          /\ upd' = [upd EXCEPT !.bootstrapRunning = FALSE]
     ELSE /\ boot' = [boot EXCEPT ![i] = [@ EXCEPT !.pc = "aggregate", !.hasProcedures = DOMAIN facets # {},
                                                  !.reads = @ + 1]]
          /\ upd' = upd
  /\ UNCHANGED <<summary, facets, calls, clock, mig, claimDocs, queryVars, wireVars, streamVars>>

\* one of the four aggregations of Promise.all reads the claims collection;
\* when all four have their result the run goes on to its writes
BootstrapAggregate(i, which) ==
  /\ i \in DOMAIN boot
  /\ boot[i].pc = "aggregate"
  /\ boot[i].agg[which] = None
  /\ LET agg == [boot[i].agg EXCEPT ![which] = Some(Aggregate(which, claimDocs))]
     IN boot' = [boot EXCEPT ![i] =
                   [@ EXCEPT !.agg = agg, !.claimReads = @ + 1,
                             !.pc = IF \A w \in Aggregations : agg[w] # None THEN "deleteMany" ELSE "aggregate"]]
  /\ UNCHANGED <<summary, facets, calls, clock, mig, claimDocs, upd, queryVars, wireVars, streamVars>>

\* stats_procedure_counts.deleteMany({}); insertMany follows when there is
\* at least one procedure count
BootstrapDeleteMany(i) ==
  /\ i \in DOMAIN boot
  /\ boot[i].pc = "deleteMany"
  /\ facets' = EmptyFn
  /\ boot' = [boot EXCEPT ![i] =
                [@ EXCEPT !.writes = @ + 1,
                          !.pc = IF DOMAIN boot[i].agg.procedureCounts[1] # {} THEN "insertMany" ELSE "updateOne"]]
  /\ UNCHANGED <<summary, calls, clock, mig, claimDocs, upd, queryVars, wireVars, streamVars>>

\* stats_procedure_counts.insertMany(..., {ordered: false}): every counter
\* whose _id is not in the table is inserted; when an _id is already there
\* the call throws after the others have been inserted
BootstrapInsertMany(i) ==
  /\ i \in DOMAIN boot
  /\ boot[i].pc = "insertMany"
  /\ LET counts == boot[i].agg.procedureCounts[1]
         fresh == DOMAIN counts \ DOMAIN facets
         table == [code \in DOMAIN facets \cup fresh |->
                     IF code \in DOMAIN facets THEN facets[code] ELSE counts[code]]
     IN /\ facets' = table
        /\ IF fresh = DOMAIN counts
           THEN /\ boot' = [boot EXCEPT ![i] = [@ EXCEPT !.pc = "updateOne", !.writes = @ + 1]]
                /\ upd' = upd
           ELSE /\ boot' = [boot EXCEPT ![i] =
                              EndBoot([@ EXCEPT !.writes = @ + 1], "threw",
                                      [summary |-> summary, facets |-> table], claimDocs)]
                /\ upd' = [upd EXCEPT !.bootstrapRunning = FALSE]
  /\ UNCHANGED <<summary, calls, clock, mig, claimDocs, queryVars, wireVars, streamVars>>

\* stats_summary.updateOne with $set and upsert, then the end of the run
BootstrapUpdateOne(i) ==
  /\ i \in DOMAIN boot
  /\ boot[i].pc = "updateOne"
  /\ clock' = clock + 1
  /\ \E dur \in Durations :
       /\ summary' = SetBootstrap(summary, boot[i].agg, clock + 1, dur)
       /\ boot' = [boot EXCEPT ![i] =
                     EndBoot([@ EXCEPT !.writes = @ + 1], "completed",
                             [summary |-> summary', facets |-> facets], claimDocs)]
  /\ upd' = [upd EXCEPT !.bootstrapRunning = FALSE]
  /\ UNCHANGED <<facets, calls, mig, claimDocs, queryVars, wireVars, streamVars>>

\* getDb or a store call of the run throws: the finally block clears the flag
BootstrapFails(i) ==
  /\ i \in DOMAIN boot
  /\ boot[i].pc \in BootActive
  /\ boot' = [boot EXCEPT ![i] = EndBoot(@, "threw", Store, claimDocs)]
  /\ upd' = [upd EXCEPT !.bootstrapRunning = FALSE]
  /\ UNCHANGED <<summary, facets, calls, clock, mig, claimDocs, queryVars, wireVars, streamVars>>

(***************************************************************************)
(* SummaryUpdaterService: onModuleInit, startStream, scheduleRetry,        *)
(* stopStream and the change stream of the claims collection               *)
(***************************************************************************)
\* Largest number of change streams alive at once (a stream whose 'close' has
\* been emitted and that nothing refers to gives its place back)
MaxStreams == 2

\* Largest number of startStream calls in progress at once
MaxStarts == 2

\* Largest number of faults of the store and of the streams
MaxFaults == 1

\* setTimeout(..., 5000) of scheduleRetry
RetryDelayMs == 5000

\* setTimeout(..., 0) of onModuleInit
BootstrapDelayMs == 0

\* a place without a stream, and the stream collection.watch returns: it
\* delivers the inserts made after position from of the claims collection
\* and has delivered those up to position pos
NoStream == [state |-> "none", from |-> 0, pos |-> 0]

Watch(docs) == [state |-> "open", from |-> Len(docs), pos |-> Len(docs)]

\* a startStream call: free (no call), awaiting changeStream.close() inside
\* stopStream, or awaiting getDb()
NoStart == [pc |-> "free", closing |-> 0]

\* env: BOOTSTRAP_ON_START (flag), where onModuleInit stands (init), whether
\* the store is reachable (dbUp), whether getDb holds a connected Db
\* (connected), the faults so far, and where onModuleDestroy stands (destroy)
MkEnv(flag, dbUp) ==
  [flag |-> flag, init |-> "new", dbUp |-> dbUp, connected |-> FALSE, faults |-> 0, destroy |-> "no"]

InitStream ==
  /\ streams = [s \in 1..MaxStreams |-> NoStream]
  /\ starts = [k \in 1..MaxStarts |-> NoStart]
  /\ env = MkEnv(TRUE, TRUE)

\* scheduleRetry without a timer
scheduleRetryNever(u) == u

\* scheduleRetry: nothing when a timer is pending, otherwise a timer of 5000 ms
scheduleRetry(u) ==
  IF u.retryTimer # None THEN u ELSE [u EXCEPT !.retryTimer = Some(RetryDelayMs)]

\* the streams something still refers to or that have yet to emit 'close'
Release(strs, u, sts) ==
  [s \in DOMAIN strs |->
     IF strs[s].state = "closed" /\ u.changeStream # s /\ \A k \in DOMAIN sts : sts[k].closing # s
     THEN NoStream ELSE strs[s]]

\* collection.watch and the three listeners: the stream takes the first free
\* place and becomes the changeStream of the instance
Subscribe(u, sts) ==
  \E s \in DOMAIN streams :
    /\ streams[s].state = "none"
    /\ \A t \in 1..(s - 1) : streams[t].state # "none"
    /\ upd' = [u EXCEPT !.changeStream = s]
    /\ starts' = sts
    /\ streams' = Release([streams EXCEPT ![s] = Watch(claimDocs)], upd', sts)

\* startStream is entered: stopStream clears the retry timer and, when there
\* is a change stream, calls close() on it and awaits.  Otherwise startStream
\* goes on to getDb(): when getDb holds a Db it resolves without a turn of
\* the event loop and the stream is opened at once, else the call awaits
\* client.connect()
BeginStart(u) ==
  LET v == [u EXCEPT !.retryTimer = None]
  IN IF v.changeStream = 0 /\ env.connected
     THEN Subscribe(v, starts)
     ELSE /\ \E k \in DOMAIN starts :
               /\ starts[k].pc = "free"
               /\ \A j \in 1..(k - 1) : starts[j].pc # "free"
               /\ starts' = [starts EXCEPT ![k] = IF v.changeStream # 0
                                                  THEN [pc |-> "close", closing |-> v.changeStream]
                                                  ELSE [pc |-> "getDb", closing |-> 0]]
          /\ upd' = v
          /\ streams' = streams

\* onModuleInit is called: it awaits migrateLegacySummaryIfNeeded
OnModuleInit ==
  /\ env.init = "new"
  /\ mig.pc = "idle"
  /\ mig' = [mig EXCEPT !.pc = "findOne", !.before = summary]
  /\ env' = [env EXCEPT !.init = "migrate"]
  /\ UNCHANGED <<summary, facets, calls, clock, queryVars, wireVars, bootVars, streams, starts>>

\* onModuleInit starting the bootstrap timer whatever the flag
AfterMigrateAlways ==
  /\ env.init = "migrate"
  /\ mig.pc = "idle"
  /\ upd' = [upd EXCEPT !.bootstrapTimer = Some(BootstrapDelayMs)]
  /\ env' = [env EXCEPT !.init = "timer"]
  /\ UNCHANGED <<summary, facets, calls, clock, mig, claimDocs, boot, queryVars, wireVars, streams, starts>>

\* onModuleInit after the migration has ended (its rejection is swallowed):
\* with BOOTSTRAP_ON_START it sets the bootstrap timer and returns,
\* otherwise it calls startStream
AfterMigrate ==
  /\ env.init = "migrate"
  /\ mig.pc = "idle"
  /\ IF env.flag
     THEN /\ upd' = [upd EXCEPT !.bootstrapTimer = Some(BootstrapDelayMs)]
          /\ env' = [env EXCEPT !.init = "timer"]
          /\ UNCHANGED <<starts, streams>>
     ELSE /\ BeginStart(upd)
          /\ env' = [env EXCEPT !.init = "done"]
  /\ UNCHANGED <<summary, facets, calls, clock, mig, claimDocs, boot, queryVars, wireVars>>

\* the bootstrap timer fires: bootstrapTimer = null and bootstrapIfNeeded is
\* called
BootstrapTimerFires ==
  /\ upd.bootstrapTimer # None
  /\ env.init = "timer"
  /\ boot' = Append(boot, IF upd.bootstrapRunning
                          THEN [MkBoot("skipped", Some(Store), claimDocs) EXCEPT !.after = Some(Store)]
                          ELSE MkBoot("findOne", Some(Store), claimDocs))
  /\ upd' = [upd EXCEPT !.bootstrapTimer = None, !.bootstrapRunning = TRUE]
  /\ env' = [env EXCEPT !.init = "bootstrap"]
  /\ UNCHANGED <<summary, facets, calls, clock, mig, claimDocs, queryVars, wireVars, streams, starts>>

\* startStream called from a then() of the run in place of its finally()
AfterBootstrapOnSuccess ==
  /\ env.init = "bootstrap"
  /\ boot # <<>>
  /\ boot[Len(boot)].pc \in BootEnded \ {"threw"}
  /\ BeginStart(upd)
  /\ env' = [env EXCEPT !.init = "done"]
  /\ UNCHANGED <<summary, facets, calls, clock, mig, claimDocs, boot, queryVars, wireVars>>

\* bootstrapIfNeeded has ended (its rejection is swallowed): finally calls
\* startStream
AfterBootstrap ==
  /\ env.init = "bootstrap"
  /\ boot # <<>>
  /\ boot[Len(boot)].pc \in BootEnded
  /\ BeginStart(upd)
  /\ env' = [env EXCEPT !.init = "done"]
  /\ UNCHANGED <<summary, facets, calls, clock, mig, claimDocs, boot, queryVars, wireVars>>

\* stopStream: changeStream.close() has ended; a stream that had not yet
\* emitted 'close' emits it (its listener calls scheduleRetry), then
\* changeStream = null and startStream goes on to getDb(), which holds the
\* Db the stream was opened on: the next stream is opened at once
StopStreamClosed(k) ==
  /\ k \in DOMAIN starts
  /\ starts[k].pc = "close"
  /\ LET s == starts[k].closing
         emits == streams[s].state \in {"open", "errored"}
         u == [(IF emits THEN scheduleRetry(upd) ELSE upd) EXCEPT !.changeStream = 0]
         sts == [starts EXCEPT ![k] = NoStart]
         closed == Release([streams EXCEPT ![s] = [@ EXCEPT !.state = "closed"]], u, sts)
     IN \E t \in DOMAIN closed :
          /\ closed[t].state = "none"
          /\ \A r \in 1..(t - 1) : closed[r].state # "none"
          /\ upd' = [u EXCEPT !.changeStream = t]
          /\ starts' = sts
          /\ streams' = Release([closed EXCEPT ![t] = Watch(claimDocs)], upd', sts)
  /\ UNCHANGED <<summary, facets, calls, clock, mig, claimDocs, boot, queryVars, wireVars, env>>

\* getDb resolves after client.connect to a reachable store:
\* collection.watch gives a stream, the listeners are attached
StartWatch(k) ==
  /\ k \in DOMAIN starts
  /\ starts[k].pc = "getDb"
  /\ env.dbUp
  /\ Subscribe(upd, [starts EXCEPT ![k] = NoStart])
  /\ env' = [env EXCEPT !.connected = TRUE]
  /\ UNCHANGED <<summary, facets, calls, clock, mig, claimDocs, boot, queryVars, wireVars>>

\* getDb throws (client.connect fails): catch { scheduleRetry() }
StartFails(k) ==
  /\ k \in DOMAIN starts
  /\ starts[k].pc = "getDb"
  /\ ~env.dbUp
  /\ upd' = scheduleRetry(upd)
  /\ starts' = [starts EXCEPT ![k] = NoStart]
  /\ UNCHANGED <<summary, facets, calls, clock, mig, claimDocs, boot, queryVars, wireVars, streams, env>>

\* the retry timer fires: retryTimer = null and startStream is called
RetryTimerFires ==
  /\ upd.retryTimer # None
  /\ BeginStart([upd EXCEPT !.retryTimer = None])
  /\ UNCHANGED <<summary, facets, calls, clock, mig, claimDocs, boot, queryVars, wireVars, env>>

\* the stream emits 'error' (the store is unreachable, or a fault of the
\* stream): the listener calls scheduleRetry; the driver then closes the stream
StreamError(s) ==
  /\ s \in DOMAIN streams
  /\ streams[s].state = "open"
  /\ ~env.dbUp \/ env.faults < MaxFaults
  /\ env' = IF env.dbUp THEN [env EXCEPT !.faults = @ + 1] ELSE env
  /\ streams' = [streams EXCEPT ![s] = [@ EXCEPT !.state = "errored"]]
  /\ upd' = scheduleRetry(upd)
  /\ UNCHANGED <<summary, facets, calls, clock, mig, claimDocs, boot, queryVars, wireVars, starts>>

\* the driver has closed the stream after its error: the stream emits
\* 'close' and the listener calls scheduleRetry
StreamClose(s) ==
  /\ s \in DOMAIN streams
  /\ streams[s].state = "errored"
  /\ upd' = scheduleRetry(upd)
  /\ streams' = Release([streams EXCEPT ![s] = [@ EXCEPT !.state = "closed"]], upd', starts)
  /\ UNCHANGED <<summary, facets, calls, clock, mig, claimDocs, boot, queryVars, wireVars, starts, env>>

\* the server ends the stream: it emits 'close' without an error and the
\* listener calls scheduleRetry
StreamEnd(s) ==
  /\ s \in DOMAIN streams
  /\ streams[s].state = "open"
  /\ env.faults < MaxFaults
  /\ env' = [env EXCEPT !.faults = @ + 1]
  /\ upd' = scheduleRetry(upd)
  /\ streams' = Release([streams EXCEPT ![s] = [@ EXCEPT !.state = "closed"]], upd', starts)
  /\ UNCHANGED <<summary, facets, calls, clock, mig, claimDocs, boot, queryVars, wireVars, starts>>

\* the stream emits 'change' for the next insert it has to deliver: the
\* listener calls applyInsert with the fullDocument and does not wait for it
StreamChange(s) ==
  /\ s \in DOMAIN streams
  /\ streams[s].state = "open"
  /\ env.dbUp
  /\ streams[s].pos < Len(claimDocs)
  /\ Len(calls) < MaxEvents
  /\ calls' = Append(calls, NewCall(claimDocs[streams[s].pos + 1]))
  /\ streams' = [streams EXCEPT ![s] = [@ EXCEPT !.pos = @ + 1]]
  /\ UNCHANGED <<summary, facets, clock, queryVars, wireVars, lifeVars, starts, env>>

\* onModuleDestroy is called after onModuleInit has returned: it clears the
\* bootstrap timer, and stopStream clears the retry timer and, when there is
\* a change stream, calls close() on it and awaits
OnModuleDestroy ==
  /\ env.destroy = "no"
  /\ env.init \in {"timer", "bootstrap", "done"}
  /\ upd' = [upd EXCEPT !.bootstrapTimer = None, !.retryTimer = None]
  /\ IF upd.changeStream = 0
     THEN /\ env' = [env EXCEPT !.destroy = "done"]
          /\ starts' = starts
     ELSE /\ env' = [env EXCEPT !.destroy = "close"]
          /\ \E k \in DOMAIN starts :
               /\ starts[k].pc = "free"
               /\ \A j \in 1..(k - 1) : starts[j].pc # "free"
               /\ starts' = [starts EXCEPT ![k] = [pc |-> "destroy", closing |-> upd.changeStream]]
  /\ UNCHANGED <<summary, facets, calls, clock, mig, claimDocs, boot, queryVars, wireVars, streams>>

\* onModuleDestroy: changeStream.close() has ended; a stream that had not
\* yet emitted 'close' emits it (its listener calls scheduleRetry), then
\* changeStream = null and onModuleDestroy returns
DestroyClosed(k) ==
  /\ k \in DOMAIN starts
  /\ starts[k].pc = "destroy"
  /\ LET s == starts[k].closing
         emits == streams[s].state \in {"open", "errored"}
     IN /\ upd' = [(IF emits THEN scheduleRetry(upd) ELSE upd) EXCEPT !.changeStream = 0]
        /\ starts' = [starts EXCEPT ![k] = NoStart]
        /\ streams' = Release([streams EXCEPT ![s] = [@ EXCEPT !.state = "closed"]], upd', starts')
  /\ env' = [env EXCEPT !.destroy = "done"]
  /\ UNCHANGED <<summary, facets, calls, clock, mig, claimDocs, boot, queryVars, wireVars>>

\* the store becomes unreachable
DbDown ==
  /\ env.dbUp
  /\ env.faults < MaxFaults
  /\ env' = [env EXCEPT !.dbUp = FALSE, !.faults = @ + 1]
  /\ UNCHANGED <<summary, facets, calls, clock, queryVars, wireVars, lifeVars, streams, starts>>

\* the store becomes reachable again
DbUp ==
  /\ ~env.dbUp
  /\ env' = [env EXCEPT !.dbUp = TRUE]
  /\ UNCHANGED <<summary, facets, calls, clock, queryVars, wireVars, lifeVars, streams, starts>>

(***************************************************************************)
(* StatsService.summary and SummaryStreamService (the broadcaster)         *)
(***************************************************************************)
\* Largest number of summary notifications the broadcaster takes
MaxPushes == 2

\* Largest number of read operations observed
MaxReads == 2

\* .limit(5)
TopLimit == 5

\* the data object of a response or of a pushed message: a field is None
\* when the object does not have it
MkData(totalClaims, totalAmount, statusBreakdown, topProcedures) ==
  [totalClaims |-> totalClaims, totalAmount |-> totalAmount,
   statusBreakdown |-> statusBreakdown, topProcedures |-> topProcedures]

\* the legacy data object with a topProcedures array
WithTopProcedures(data, top) == [data EXCEPT !.topProcedures = Some(top)]

\* Object.entries(statusCounts).map(...).sort((a, b) => b.count - a.count)
statusBreakdownOf(statusCounts) ==
  SortByCount({MkEntry(key, statusCounts[key]) : key \in DOMAIN statusCounts})

\* find({}).sort({count: -1}).limit(5).project({_id: 1, count: 1}).toArray()
topProceduresOf(table) ==
  LET all == SortByCount({MkEntry(code, table[code]) : code \in DOMAIN table})
  IN SubSeq(all, 1, IF Len(all) < TopLimit THEN Len(all) ELSE TopLimit)

\* StatsService.summary on the stored document (None when there is none) and
\* the facet table
summaryResponse(sum, table) ==
  LET doc == IF sum = None THEN EmptySummary ELSE sum[1]
      statusCounts == IF doc.statusCounts = None THEN EmptyFn ELSE doc.statusCounts[1]
      legacyBreakdown == IF doc.data # None /\ doc.data[1].statusBreakdown # None
                         THEN doc.data[1].statusBreakdown[1] ELSE <<>>
      legacyTop == IF doc.data # None /\ doc.data[1].topProcedures # None
                   THEN doc.data[1].topProcedures[1] ELSE <<>>
      top == topProceduresOf(table)
  IN [data |-> Some(MkData(
                 Some(IF doc.totals # None THEN doc.totals[1].totalClaims
                      ELSE IF doc.data # None THEN doc.data[1].totalClaims ELSE 0),
                 Some(IF doc.totals # None THEN doc.totals[1].totalAmount
                      ELSE IF doc.data # None THEN doc.data[1].totalAmount ELSE 0),
                 Some(IF DOMAIN statusCounts # {} THEN statusBreakdownOf(statusCounts) ELSE legacyBreakdown),
                 Some(IF Len(top) > 0 THEN top ELSE legacyTop))),
      meta |-> doc.meta,
      cached |-> sum # None]

\* Object.keys(totals).length > 0 || Object.keys(statusCounts).length > 0
hasMaterialized(doc) ==
  doc.totals # None \/ (doc.statusCounts # None /\ DOMAIN doc.statusCounts[1] # {})

\* the data object of a legacy document as it is stored
StoredData(data) ==
  MkData(Some(data.totalClaims), Some(data.totalAmount), data.statusBreakdown, data.topProcedures)

\* emitSummary: the message built from the document with current fields, or
\* with no data object; table is None when the read of the facet table threw
emitSummary(doc, table) ==
  LET statusCounts == IF doc.statusCounts = None THEN EmptyFn ELSE doc.statusCounts[1]
  IN [data |-> Some(MkData(
                 Some(IF doc.totals # None THEN doc.totals[1].totalClaims ELSE 0),
                 Some(IF doc.totals # None THEN doc.totals[1].totalAmount ELSE 0),
                 Some(statusBreakdownOf(statusCounts)),
                 Some(IF table = None THEN <<>> ELSE topProceduresOf(table[1])))),
      meta |-> doc.meta]

\* the message with the data object of the document as it is stored (no data
\* when the document has none)
emitStored(doc) ==
  [data |-> IF doc.data = None THEN None ELSE Some(StoredData(doc.data[1])), meta |-> doc.meta]

\* the two change handlers the sources hold
Builds == {"emitSummary", "data"}

\* bc: the SummaryStreamService instance.  build: which change handler it
\* runs; init: onModuleInit was called; changeStream, retryTimer: its fields;
\* streams, starts: its change streams and its startStream calls, as those
\* of the updater, the position of a stream being the number of writes of the
\* summary it has notified; taken: the notifications handled; emitting: the
\* emitSummary calls awaiting the facet table; pushed: the messages emitted
\* with what they were built from.  reads: the outcomes of the read requests.
MkBroadcaster(build) ==
  [build |-> build, init |-> FALSE, changeStream |-> 0, retryTimer |-> None,
   streams |-> [s \in 1..MaxStreams |-> NoStream], starts |-> [k \in 1..MaxStarts |-> NoStart],
   taken |-> 0, emitting |-> <<>>, pushed |-> <<>>]

InitWire ==
  /\ bc = MkBroadcaster("emitSummary")
  /\ reads = <<>>
  /\ client = ClientIdle

\* this.gateway.emitSummaryUpdate(payload): the message with the
\* notification it answers, the document and facet table it stands for and
\* whether the read of the facet table threw
Pushed(no, doc, table, threw, payload) ==
  [no |-> no, doc |-> doc, facets |-> table, threw |-> threw, data |-> payload.data, meta |-> payload.meta]

\* collection.watch([], {fullDocument: 'updateLookup'}) on stats_summary
WatchSummary == [state |-> "open", from |-> clock, pos |-> clock]

\* collection.watch and the three listeners of the broadcaster
BcSubscribe(b, sts) ==
  \E s \in DOMAIN b.streams :
    /\ b.streams[s].state = "none"
    /\ \A t \in 1..(s - 1) : b.streams[t].state # "none"
    /\ LET c == [b EXCEPT !.changeStream = s, !.starts = sts]
       IN bc' = [c EXCEPT !.streams = Release([b.streams EXCEPT ![s] = WatchSummary], c, sts)]

\* startStream of the broadcaster is entered: stopStream, then getDb
BcBeginStart(b) ==
  LET v == [b EXCEPT !.retryTimer = None]
  IN IF v.changeStream = 0 /\ env.connected
     THEN BcSubscribe(v, v.starts)
     ELSE \E k \in DOMAIN v.starts :
            /\ v.starts[k].pc = "free"
            /\ \A j \in 1..(k - 1) : v.starts[j].pc # "free"
            /\ bc' = [v EXCEPT !.starts[k] = IF v.changeStream # 0
                                              THEN [pc |-> "close", closing |-> v.changeStream]
                                              ELSE [pc |-> "getDb", closing |-> 0]]

\* onModuleInit of the broadcaster: startStream is called and not awaited
BcOnModuleInit ==
  /\ ~bc.init
  /\ BcBeginStart([bc EXCEPT !.init = TRUE])
  /\ UNCHANGED <<updaterVars, queryVars, reads, client>>

\* stopStream of the broadcaster: changeStream.close() has ended
BcStopStreamClosed(k) ==
  /\ k \in DOMAIN bc.starts
  /\ bc.starts[k].pc = "close"
  /\ LET s == bc.starts[k].closing
         emits == bc.streams[s].state \in {"open", "errored"}
         u == [(IF emits THEN scheduleRetry(bc) ELSE bc) EXCEPT !.changeStream = 0]
         sts == [bc.starts EXCEPT ![k] = NoStart]
         closed == Release([bc.streams EXCEPT ![s] = [@ EXCEPT !.state = "closed"]], u, sts)
     IN BcSubscribe([u EXCEPT !.streams = closed], sts)
  /\ UNCHANGED <<updaterVars, queryVars, reads, client>>

\* getDb of the broadcaster resolves after client.connect
BcStartWatch(k) ==
  /\ k \in DOMAIN bc.starts
  /\ bc.starts[k].pc = "getDb"
  /\ env.dbUp
  /\ BcSubscribe(bc, [bc.starts EXCEPT ![k] = NoStart])
  /\ env' = [env EXCEPT !.connected = TRUE]
  /\ UNCHANGED <<summary, facets, calls, clock, lifeVars, streams, starts, queryVars, reads, client>>

\* getDb of the broadcaster throws: catch { scheduleRetry() }
BcStartFails(k) ==
  /\ k \in DOMAIN bc.starts
  /\ bc.starts[k].pc = "getDb"
  /\ ~env.dbUp
  /\ bc' = [scheduleRetry(bc) EXCEPT !.starts[k] = NoStart]
  /\ UNCHANGED <<updaterVars, queryVars, reads, client>>

\* the retry timer of the broadcaster fires
BcRetryTimerFires ==
  /\ bc.retryTimer # None
  /\ BcBeginStart([bc EXCEPT !.retryTimer = None])
  /\ UNCHANGED <<updaterVars, queryVars, reads, client>>

\* the summary stream emits 'error' and its listener arms the retry timer of
\* the updater
BcStreamErrorOtherTimer(s) ==
  /\ s \in DOMAIN bc.streams
  /\ bc.streams[s].state = "open"
  /\ ~env.dbUp \/ env.faults < MaxFaults
  /\ env' = IF env.dbUp THEN [env EXCEPT !.faults = @ + 1] ELSE env
  /\ bc' = [bc EXCEPT !.streams[s].state = "errored"]
  /\ upd' = scheduleRetry(upd)
  /\ UNCHANGED <<summary, facets, calls, clock, mig, claimDocs, boot, streams, starts, queryVars, reads, client>>

\* the summary stream emits 'error': the listener calls scheduleRetry
BcStreamError(s) ==
  /\ s \in DOMAIN bc.streams
  /\ bc.streams[s].state = "open"
  /\ ~env.dbUp \/ env.faults < MaxFaults
  /\ env' = IF env.dbUp THEN [env EXCEPT !.faults = @ + 1] ELSE env
  /\ bc' = scheduleRetry([bc EXCEPT !.streams[s].state = "errored"])
  /\ UNCHANGED <<summary, facets, calls, clock, lifeVars, streams, starts, queryVars, reads, client>>

\* the driver has closed the summary stream after its error
BcStreamClose(s) ==
  /\ s \in DOMAIN bc.streams
  /\ bc.streams[s].state = "errored"
  /\ LET u == scheduleRetry(bc)
     IN bc' = [u EXCEPT !.streams = Release([bc.streams EXCEPT ![s] = [@ EXCEPT !.state = "closed"]],
                                            u, bc.starts)]
  /\ UNCHANGED <<updaterVars, queryVars, reads, client>>

\* the server ends the summary stream
BcStreamEnd(s) ==
  /\ s \in DOMAIN bc.streams
  /\ bc.streams[s].state = "open"
  /\ env.faults < MaxFaults
  /\ env' = [env EXCEPT !.faults = @ + 1]
  /\ LET u == scheduleRetry(bc)
     IN bc' = [u EXCEPT !.streams = Release([bc.streams EXCEPT ![s] = [@ EXCEPT !.state = "closed"]],
                                            u, bc.starts)]
  /\ UNCHANGED <<summary, facets, calls, clock, lifeVars, streams, starts, queryVars, reads, client>>

\* the summary stream emits 'change' for the next write of the document,
\* with the document as the store holds it.  The handler of the one source
\* pushes the stored data object; that of the other calls emitSummary, which
\* pushes the stored data object of a document without current fields and
\* otherwise goes on to read the facet table
BcStreamChange(s) ==
  /\ s \in DOMAIN bc.streams
  /\ bc.streams[s].state = "open"
  /\ env.dbUp
  /\ bc.streams[s].pos < clock
  /\ bc.taken < MaxPushes
  /\ summary # None
  /\ LET doc == summary[1]
         no == bc.taken + 1
         b == [bc EXCEPT !.streams[s].pos = @ + 1, !.taken = no]
     IN bc' = IF bc.build = "data" \/ (~hasMaterialized(doc) /\ doc.data # None)
              THEN [b EXCEPT !.pushed = Append(@, Pushed(no, doc, facets, FALSE, emitStored(doc)))]
              ELSE [b EXCEPT !.emitting = Append(@, [no |-> no, doc |-> doc])]
  /\ UNCHANGED <<updaterVars, queryVars, reads, client>>

\* emitSummary: the facet table has been read, the message is pushed
BcEmit(i) ==
  /\ i \in DOMAIN bc.emitting
  /\ LET e == bc.emitting[i]
     IN bc' = [bc EXCEPT !.emitting = SelectSeq(@, LAMBDA x : x # e),
                         !.pushed = Append(@, Pushed(e.no, e.doc, facets, FALSE,
                                                     emitSummary(e.doc, Some(facets))))]
  /\ UNCHANGED <<updaterVars, queryVars, reads, client>>

\* emitSummary: the read of the facet table throws, the message is pushed
\* with no procedures
BcEmitReadFails(i) ==
  /\ i \in DOMAIN bc.emitting
  /\ env.faults < MaxFaults
  /\ env' = [env EXCEPT !.faults = @ + 1]
  /\ LET e == bc.emitting[i]
     IN bc' = [bc EXCEPT !.emitting = SelectSeq(@, LAMBDA x : x # e),
                         !.pushed = Append(@, Pushed(e.no, e.doc, facets, TRUE,
                                                     emitSummary(e.doc, None)))]
  /\ UNCHANGED <<summary, facets, calls, clock, lifeVars, streams, starts, queryVars, reads, client>>

(***************************************************************************)
(* The read operations as their caller sees them                           *)
(***************************************************************************)
\* the outcome of a read request: threw when the promise rejected, body the
\* value it resolved to
Returned(op, body) == [op |-> op, threw |-> FALSE, body |-> body]

Threw(op) == [op |-> op, threw |-> TRUE, body |-> None]

\* getDb(): the Db it holds, or the one of a new connection; it throws when
\* the connection cannot be made
getDbThrows == ~env.connected /\ ~env.dbUp

\* a read issued on the Db throws when the store is unreachable
readThrows == ~env.dbUp

\* StatsService.summary: getDb, findOne and the read of the facet table, none
\* of them in a try block
GetSummary ==
  /\ Len(reads) < MaxReads
  /\ reads' = Append(reads, IF getDbThrows \/ readThrows THEN Threw("getSummary")
                            ELSE Returned("getSummary", Some(summaryResponse(summary, facets))))
  /\ env' = IF env.dbUp THEN [env EXCEPT !.connected = TRUE] ELSE env
  /\ UNCHANGED <<summary, facets, calls, clock, lifeVars, streams, starts, queryVars, bc, client>>

\* StatsService.slowOps: getDb outside the try blocks, db.command and the
\* find of system.profile each in its own
SlowOps ==
  /\ Len(reads) < MaxReads
  /\ reads' = Append(reads, IF getDbThrows THEN Threw("slowOps")
                            ELSE Returned("slowOps", Some([data |-> <<>>, profiler |-> ~readThrows])))
  /\ env' = IF env.dbUp THEN [env EXCEPT !.connected = TRUE] ELSE env
  /\ UNCHANGED <<summary, facets, calls, clock, lifeVars, streams, starts, queryVars, bc, client>>

\* the getClaim outcome with the request it answers: whether the id passed
\* ObjectId.isValid and whether collection.findOne was called
OfGetClaim(outcome, valid, findOne) ==
  [op |-> outcome.op, threw |-> outcome.threw, body |-> outcome.body, valid |-> valid, findOne |-> findOne]

\* ClaimsService.getClaim: getDb, then {data: null} for an id that is not
\* valid, otherwise findOne
GetClaim(valid) ==
  /\ Len(reads) < MaxReads
  /\ reads' = Append(reads, IF getDbThrows THEN OfGetClaim(Threw("getClaim"), valid, FALSE)
                            ELSE IF valid /\ readThrows THEN OfGetClaim(Threw("getClaim"), valid, TRUE)
                            ELSE OfGetClaim(Returned("getClaim", Some([data |-> None])), valid, valid))
  /\ env' = IF env.dbUp THEN [env EXCEPT !.connected = TRUE] ELSE env
  /\ UNCHANGED <<summary, facets, calls, clock, lifeVars, streams, starts, queryVars, bc, client>>

\* ClaimsService.listClaims as its caller sees it: getDb and the reads of the
\* collection, none of them in a try block
ListClaimsCall ==
  /\ Len(reads) < MaxReads
  /\ reads' = Append(reads, IF getDbThrows \/ readThrows THEN Threw("listClaims")
                            ELSE Returned("listClaims", Some([data |-> <<>>, hasMore |-> FALSE])))
  /\ env' = IF env.dbUp THEN [env EXCEPT !.connected = TRUE] ELSE env
  /\ UNCHANGED <<summary, facets, calls, clock, lifeVars, streams, starts, queryVars, bc, client>>

(***************************************************************************)
(* Specifications                                                          *)
(***************************************************************************)
Init == InitClaims /\ InitSummary /\ InitMigration /\ InitBootstrap /\ InitStream /\ InitWire

\* the query engine answering single requests while claims are ingested
NextList ==
  \/ \E c \in ClaimPool : InsertClaim(c)
  \/ \E query \in OffsetQueries \cup CursorQueries : ListClaims(query)
  \/ Respond

SpecList == Init /\ [][NextList]_vars

\* a client reading the pages of one query in offset mode
NextPaging ==
  \/ \E c \in ClaimPool : InsertClaim(c)
  \/ \E query \in PagedQueries : OffsetPage(query)
  \/ EndPaging

SpecPaging == Init /\ [][NextPaging]_vars

\* a client walking the pages while claims are ingested
NextWalk ==
  \/ \E c \in ClaimPool : InsertClaim(c)
  \/ \E query \in WalkQueries : StartWalk(query)
  \/ LoadMore

SpecWalk == Init /\ [][NextWalk]_vars

\* building and parsing cursors
NextCodec ==
  \/ \E date \in CodecDates, id \in CodecIds : EncodeCursor(date, id)
  \/ DecodeCursor

SpecCodec == Init /\ [][NextCodec]_vars

\* the updater applying the insert events of the claims feed
NextUpdater ==
  \/ \E doc \in DocPool : OnChange(doc)
  \/ OnChangeNoDocument
  \/ \E i \in 1..MaxEvents : ApplySummaryWrite(i)
  \/ \E i \in 1..MaxEvents : ApplySummaryFails(i)
  \/ \E i \in 1..MaxEvents, code \in {"99213", "99214"} : ApplyFacetWrite(i, code)
  \/ \E i \in 1..MaxEvents, code \in {"99213", "99214"} : ApplyFacetFails(i, code)

SpecUpdater == Init /\ [][NextUpdater]_vars

\* the migration run at each start of the service, on every document the
\* store may hold
InitMigrate ==
  /\ InitClaims
  /\ InitWire
  /\ summary \in SummaryPool
  /\ facets = EmptyFn
  /\ calls = <<>>
  /\ clock = 1
  /\ InitMigration
  /\ InitBootstrap
  /\ InitStream

NextMigrate ==
  \/ MigrateCall
  \/ MigrateFindOne
  \/ MigrateUpdateOne
  \/ MigrateFails

SpecMigrate == InitMigrate /\ [][NextMigrate]_vars

\* bootstrapIfNeeded called while claims are inserted, on a store that
\* holds no summary, a summary without facet counters, or both
InitBoot ==
  /\ InitClaims
  /\ InitWire
  /\ \E store \in { [summary |-> None, facets |-> EmptyFn],
                     [summary |-> None, facets |-> ("99213" :> 1)],
                     [summary |-> Some(MkSummary(None, Some(MkTotals(1, 250)), Some("approved" :> 1),
                                                 MkMeta(1, Some(0), "legacy-migration"))),
                      facets |-> EmptyFn],
                     [summary |-> Some(MkSummary(None, Some(MkTotals(1, 250)), Some("approved" :> 1),
                                                 MkMeta(1, Some(0), "change-stream"))),
                      facets |-> ("99213" :> 1)] } :
       /\ summary = store.summary
       /\ facets = store.facets
  /\ calls = <<>>
  /\ clock = 1
  /\ InitMigration
  /\ InitBootstrap
  /\ InitStream

\* the claims inserted while the bootstrap is observed: a claim with a
\* procedure code and a claim without codes, amount and status
BootDocs ==
  { MkDoc(Some(250), "approved", Some(<<"99213">>)),
    MkDoc(None, "", None) }

NextBoot ==
  \/ \E doc \in BootDocs : InsertDoc(doc)
  \/ BootstrapCall
  \/ \E i \in 1..MaxBootstraps : BootstrapFindOne(i)
  \/ \E i \in 1..MaxBootstraps : BootstrapCount(i)
  \/ \E i \in 1..MaxBootstraps, which \in Aggregations : BootstrapAggregate(i, which)
  \/ \E i \in 1..MaxBootstraps : BootstrapDeleteMany(i)
  \/ \E i \in 1..MaxBootstraps : BootstrapInsertMany(i)
  \/ \E i \in 1..MaxBootstraps : BootstrapUpdateOne(i)
  \/ \E i \in 1..MaxBootstraps : BootstrapFails(i)

SpecBoot == InitBoot /\ [][NextBoot]_vars

(***************************************************************************)
(* Properties of the cursor walk                                           *)
(***************************************************************************)
Occurrences(x, s) == Cardinality({i \in DOMAIN s : s[i] = x})

WalkEnded == walk.active /\ ~walk.hasMore

\* C1: a walk from the empty cursor that follows nextCursor until
\* hasMore=false has returned every claim that matched the filter when the
\* walk began in exactly one page, in both directions, with inserts between
\* the page requests and with claims that share a serviceDate.
C1_WalkVisitsEachOnce ==
  WalkEnded => \A id \in walk.start : Occurrences(id, Flatten(walk.pages)) = 1

(***************************************************************************)
(* Properties of one listClaims response                                   *)
(***************************************************************************)
CursorResp == resp # None /\ hasCursorOf(resp[1].query)
OffsetResp == resp # None /\ ~hasCursorOf(resp[1].query)

\* the position a request's cursor denotes, as a document of the sort order
CursorPosition(query) ==
  [_id |-> cursorFilterOf(query)[1].id, serviceDate |-> cursorFilterOf(query)[1].date]

\* the rows of the request's filter that the (serviceDate, _id) order of the
\* requested direction places strictly after the cursor position
RowsAfterCursor(query) ==
  { c \in claims :
      /\ BaseMatches(query, c)
      /\ cursorFilterOf(query) # None =>
           sortDirOf(query) * CmpFields(c, CursorPosition(query), <<"serviceDate", "_id">>) > 0 }

InWalkOrder(query, rows) ==
  CHOOSE s \in SortedOrders(rows, [fields |-> <<"serviceDate", "_id">>, dir |-> sortDirOf(query)]) : TRUE

\* C4: in cursor mode hasMore is true exactly when more than pageSize
\* matching rows lie strictly after the cursor position in the
\* (serviceDate, _id) order of the requested direction, the items are the
\* first min(pageSize, n) of those rows, and nextCursor, when present,
\* encodes serviceDate and _id of the last returned row.
C4_PageIsNextRows ==
  CursorResp =>
    LET query == resp[1].query
        res == resp[1].res
        rows == RowsAfterCursor(query)
        n == Cardinality(rows)
    IN /\ res.meta.hasMore = Some(n > pageSizeOf(query))
       /\ res.data = Slice0(InWalkOrder(query, rows), Min2(pageSizeOf(query), n))
       /\ res.meta.nextCursor # None =>
            /\ res.data # <<>>
            /\ parseCursor(res.meta.nextCursor[1]) =
                 Some([date |-> res.data[Len(res.data)].serviceDate,
                       id |-> res.data[Len(res.data)]._id])

\* C5: every cursor-mode response is either HasMore (hasMore=true and a
\* non-null nextCursor) or Exhausted (hasMore=false and nextCursor=null),
\* whatever fields the last returned row carries.
C5_HasMoreOrExhausted ==
  CursorResp =>
    \/ resp[1].res.meta.hasMore = Some(TRUE) /\ resp[1].res.meta.nextCursor # None
    \/ resp[1].res.meta.hasMore = Some(FALSE) /\ resp[1].res.meta.nextCursor = None

\* the request carries a cursor string that parseCursor rejects
RejectedCursor(query) ==
  /\ query.cursor # None
  /\ query.cursor[1] # <<>>
  /\ parseCursor(query.cursor[1]) = None

\* the response to the same request sent with the empty cursor
FirstPageOf(query) ==
  LET q == [query EXCEPT !.cursor = Some(<<>>)]
  IN listClaims(q, claims, CHOOSE s \in SortedOrders(Find(claims, q), SortSpecOf(q)) : TRUE)

\* C7: a cursor string that parseCursor rejects does not fail the request:
\* the response is the first page of the same query with an empty cursor.
C7_RejectedCursorIsFirstPage ==
  (resp # None /\ RejectedCursor(resp[1].query)) => resp[1].res = FirstPageOf(resp[1].query)

C7_Witness ==
  /\ resp # None
  /\ RejectedCursor(resp[1].query)
  /\ Len(resp[1].res.data) = 2
  /\ resp[1].res.meta.nextCursor # None

\* C8: without a cursor, items.length <= pageSize; total is the number of
\* claims matching the filter when includeTotal is requested, else null.
C8_OffsetTotalAndSize ==
  OffsetResp =>
    LET query == resp[1].query
        res == resp[1].res
    IN /\ Len(res.data) <= pageSizeOf(query)
       /\ res.meta.total =
            IF query.includeTotal \in {"1", "true"}
            THEN Some(Cardinality({c \in claims : BaseMatches(query, c)}))
            ELSE None

C8_Witness ==
  /\ OffsetResp
  /\ resp[1].query.status = "denied"
  /\ resp[1].res.meta.total = Some(3)
  /\ Len(resp[1].res.data) = 2
  /\ Cardinality(claims) = 4

\* C10: the mode depends only on the presence of the cursor parameter (an
\* empty string is present): with a cursor total is null even when
\* includeTotal is requested and page does not change the rows; without one
\* hasMore and nextCursor are null.
C10_TwoModes ==
  resp # None =>
    LET query == resp[1].query
        res == resp[1].res
    IN IF query.cursor # None
       THEN /\ res.meta.hasMore # None
            /\ res.meta.total = None
            /\ \A pg \in 0..MaxPageNo :
                 \A s \in SortedOrders(Find(claims, [query EXCEPT !.page = pg]),
                                       SortSpecOf([query EXCEPT !.page = pg])) :
                   listClaims([query EXCEPT !.page = pg], claims, s).data = res.data
       ELSE res.meta.hasMore = None /\ res.meta.nextCursor = None

C10_Witness ==
  /\ resp # None
  /\ resp[1].query.cursor = Some(<<>>)
  /\ resp[1].query.includeTotal = "1"
  /\ resp[1].query.page = 2
  /\ Len(resp[1].res.data) = 2
  /\ resp[1].res.meta.hasMore = Some(TRUE)

(***************************************************************************)
(* Properties of offset paging                                             *)
(***************************************************************************)
\* C9: in offset mode page p holds the rows at positions (p-1)*pageSize+1 ..
\* p*pageSize of one fixed ordering of the matching set by the sort field and
\* direction, so the pages of one query over an unchanged collection share
\* no row, also when matching claims tie on the sort field.
C9_PagesOfOneOrdering ==
  off # None =>
    LET query == off[1].query
    IN \E ord \in SortedOrders(Find(claims, query), SortSpecOf(query)) :
         \A p \in DOMAIN off[1].pages :
           off[1].pages[p] = Ids(SkipLimit(ord, (p - 1) * pageSizeOf(query), pageSizeOf(query)))

(***************************************************************************)
(* Properties of the cursor codec                                          *)
(***************************************************************************)
\* C6: parsing the cursor string built for a (serviceDate, id) pair returns
\* the same timestamp and the same id.
C6_CursorRoundTrip ==
  codec.phase = "decoded" => codec.out = Some([date |-> codec.date, id |-> codec.id])

C6_Witness ==
  /\ codec.phase = "decoded"
  /\ codec.date = DateB
  /\ codec.id = [i \in 1..OidBytes |-> 16 * i + i]
  /\ codec.out # None

(***************************************************************************)
(* Properties of applyInsert                                               *)
(***************************************************************************)
\* a document with a numeric totalAmount, a non-empty status and a list of
\* non-empty procedure codes
WellFormed(doc) ==
  /\ doc.totalAmount # None
  /\ doc.status # ""
  /\ doc.procedureCodes # None
  /\ \A k \in DOMAIN doc.procedureCodes[1] : doc.procedureCodes[1][k] # ""

Started == {i \in DOMAIN calls : calls[i].pc # "skipped"}
Written == {i \in Started : calls[i].writeNo > 0}

RECURSIVE SumOver(_, _)
SumOver(S, f) ==
  IF S = {} THEN 0
  ELSE LET x == CHOOSE y \in S : TRUE IN f[x] + SumOver(S \ {x}, f)

AllCodes == UNION {Range(calls[i].doc.procedureCodes[1]) : i \in {j \in Started : calls[j].doc.procedureCodes # None}}

\* the totals and status counters are those of the summary updates applied
SummaryIsSumOfWritten ==
  IF Written = {} THEN summary = None
  ELSE /\ summary # None
       /\ summary[1].totals # None /\ summary[1].statusCounts # None
       /\ summary[1].totals[1].totalClaims = Cardinality(Written)
       /\ summary[1].totals[1].totalAmount = SumOver(Written, [i \in Written |-> calls[i].doc.totalAmount[1]])
       /\ DOMAIN summary[1].statusCounts[1] = {calls[i].doc.status : i \in Written}
       /\ \A st \in DOMAIN summary[1].statusCounts[1] :
            summary[1].statusCounts[1][st] = Cardinality({i \in Written : calls[i].doc.status = st})

\* every facet counter is the number of increments the calls have made to it
FacetsAreSumOfWrote ==
  /\ DOMAIN facets = {code \in AllCodes : \E i \in Started : BagIn(code, calls[i].wrote)}
  /\ \A code \in DOMAIN facets :
       facets[code] = SumOver(Started, [i \in Started |-> CopiesIn(code, calls[i].wrote)])

AllWellFormed == \A i \in Started : WellFormed(calls[i].doc)

AllDone == calls # <<>> /\ \A i \in DOMAIN calls : calls[i].pc \in {"done", "skipped"}

RECURSIVE IncFacets(_, _)
IncFacets(fc, codes) == IF codes = <<>> THEN fc ELSE IncFacets(IncFacet(fc, Head(codes)), Tail(codes))

ApplyInsertAlone(store, doc) ==
  [summary |-> IncSummary(store.summary, AmountOf(doc), StatusOf(doc), 0, 0),
   facets |-> IncFacets(store.facets, CodesOf(doc))]

\* the totals and status counters of a summary document
CountersOf(sum) == IF sum = None THEN None ELSE Some([totals |-> sum[1].totals, statusCounts |-> sum[1].statusCounts])

\* the counters of a store: totals, status counters and facet counters
StoreCounters(store) == [summary |-> CountersOf(store.summary), facets |-> store.facets]

\* the events of the feed applied one after another in the order ord
RECURSIVE ApplyInOrder(_, _)
ApplyInOrder(store, ord) ==
  IF ord = <<>> THEN store
  ELSE ApplyInOrder(IF calls[Head(ord)].pc = "skipped" THEN store
                    ELSE ApplyInsertAlone(store, calls[Head(ord)].doc),
                    Tail(ord))

EventOrders(n) == {f \in [1..n -> 1..n] : \A i, j \in 1..n : i # j => f[i] # f[j]}

\* C3: whatever the interleaving of the store writes of concurrently running
\* applyInsert calls, and whatever the order of the events, the totals,
\* status counters and facet counters end as if the events had been applied
\* one after another in feed order.
C3_DeltaCommutes ==
  AllDone =>
    \A ord \in EventOrders(Len(calls)) :
      StoreCounters(ApplyInOrder([summary |-> None, facets |-> EmptyFn], ord))
        = StoreCounters([summary |-> summary, facets |-> facets])

C3_Witness ==
  /\ AllDone
  /\ Len(calls) = 2
  /\ calls[1].doc = MkDoc(Some(250), "approved", Some(<<"99213">>))
  /\ calls[2].doc = MkDoc(Some(100), "denied", Some(<<"99213", "99214">>))
  /\ calls[1].writeNo = 2
  /\ calls[2].writeNo = 1
  /\ summary[1].totals[1].totalAmount = 350
  /\ facets["99213"] = 2

(***************************************************************************)
(* Properties of the sort field and of the compiled filter                 *)
(***************************************************************************)
\* the sort field the request is entitled to
EntitledSortBy(query) ==
  IF query.cursor # None THEN "serviceDate"
  ELSE IF query.sortBy \in {"serviceDate", "totalAmount", "status", "memberRegion", "providerSpecialty"}
       THEN query.sortBy
       ELSE "serviceDate"

EntitledDir(query) == IF query.sortDir = "asc" THEN 1 ELSE -1

\* rows come in non-decreasing (asc) or non-increasing (desc) order of field,
\* rows equal on it in the order of _id when tieBreak is set
OrderedBy(rows, field, dir, tieBreak) ==
  \A i, j \in DOMAIN rows :
    i < j =>
      \/ dir * CmpField(rows[i], rows[j], field) < 0
      \/ /\ CmpField(rows[i], rows[j], field) = 0
         /\ (tieBreak => dir * CmpOid(rows[i]._id, rows[j]._id) < 0)

\* C11: the field listClaims sorts by and reports as sortBy is in the
\* whitelist: serviceDate (ties broken by _id) whenever a cursor is supplied,
\* otherwise the requested sortBy if whitelisted and serviceDate if not.
C11_SortFieldWhitelisted ==
  resp # None =>
    LET query == resp[1].query
        res == resp[1].res
    IN /\ res.meta.sortBy \in {"serviceDate", "totalAmount", "status", "memberRegion", "providerSpecialty"}
       /\ res.meta.sortBy = EntitledSortBy(query)
       /\ OrderedBy(res.data, EntitledSortBy(query), EntitledDir(query), query.cursor # None)

C11_Witness ==
  /\ resp # None
  /\ resp[1].query.cursor # None
  /\ resp[1].query.sortBy = "totalAmount"
  /\ resp[1].res.meta.sortBy = "serviceDate"
  /\ Len(resp[1].res.data) = 2
  /\ resp[1].res.data[1].totalAmount > resp[1].res.data[2].totalAmount
  /\ resp[1].query.sortDir = "asc"

\* the codes of the request: its entries between commas, trimmed, empties dropped
RequestedCodes(query) == {Trim(part) : part \in Range(Split(query.codes, ","))} \ {<<>>}

\* the conditions a claim has to meet for the request, as the filter is
\* described: equalities, inclusive ranges, any-of codes, keyword predicate
Meets(query, c) ==
  /\ query.status = "" \/ c.status = query.status
  /\ query.region = "" \/ c.memberRegion = query.region
  /\ query.providerSpecialty = "" \/ c.providerSpecialty = query.providerSpecialty
  /\ query.minAmount = None \/ query.minAmount[1] <= c.totalAmount
  /\ query.maxAmount = None \/ c.totalAmount <= query.maxAmount[1]
  /\ query.startDate = <<>> \/
       (IsDate(c.serviceDate) /\ CmpDate(ParseDate(query.startDate), c.serviceDate) <= 0)
  /\ query.endDate = <<>> \/
       (IsDate(c.serviceDate) /\ CmpDate(c.serviceDate, ParseDate(query.endDate)) <= 0)
  /\ RequestedCodes(query) = {} \/
       RequestedCodes(query) \cap (Range(c.procedureCodes) \cup Range(c.diagnosisCodes)) # {}
  /\ query.q = <<>> \/ TextMatches(query.q, c)

\* C12: the compiled filter matches a claim exactly when the claim meets
\* every supplied condition: the rows returned all meet them, an offset page
\* that is not full holds every claim that meets them, and the total counts
\* the claims that meet them.
C12_FilterMatchesExactly ==
  (resp # None /\ resp[1].query.cursor = None) =>
    LET query == resp[1].query
        res == resp[1].res
        meeting == {c \in claims : Meets(query, c)}
    IN /\ Range(res.data) \subseteq meeting
       /\ (res.meta.page = 1 /\ Len(res.data) < res.meta.pageSize => Range(res.data) = meeting)
       /\ (res.meta.total # None => res.meta.total[1] = Cardinality(meeting))

C12_Witness ==
  /\ resp # None
  /\ resp[1].query.cursor = None
  /\ resp[1].query.codes = <<" ">> \o Cpt99213 \o <<",", " ", ",">> \o IcdI10
  /\ resp[1].res.meta.total = Some(3)
  /\ Cardinality(claims) = 4
  /\ Len(resp[1].res.data) = 3


(***************************************************************************)
(* Properties of applyInsert on an absent document or counter              *)
(***************************************************************************)
\* the increments the calls of S have written to the summary
IncrementsOf(S) ==
  [totals |-> MkTotals(Cardinality(S), SumOver(S, [i \in S |-> AmountOf(calls[i].doc)])),
   statusCounts |-> [st \in {StatusOf(calls[i].doc) : i \in S} |->
                       Cardinality({i \in S : StatusOf(calls[i].doc) = st})]]

\* the facet increments written so far, per code
FacetIncrements(code) == SumOver(Started, [i \in Started |-> CopiesIn(code, calls[i].wrote)])

\* C13: applyInsert does not need the summary document or a facet counter to
\* exist: the first summary update creates the document with exactly its
\* increments, the first increment of a code creates its counter at 1, and
\* calls racing on an absent document or key leave the sum of their
\* increments; a call that ends without a store fault has written them all.
C13_UpsertCreates ==
  /\ (Written = {} => summary = None)
  /\ (Written # {} =>
        /\ summary # None
        /\ summary[1].data = None
        /\ summary[1].totals = Some(IncrementsOf(Written).totals)
        /\ summary[1].statusCounts = Some(IncrementsOf(Written).statusCounts))
  /\ \A code \in {"99213", "99214", ""} :
        IF FacetIncrements(code) = 0 THEN code \notin DOMAIN facets
        ELSE code \in DOMAIN facets /\ facets[code] = FacetIncrements(code)
  /\ \A i \in Started :
        /\ (calls[i].pc = "done" => calls[i].writeNo > 0 /\ calls[i].wrote = BagOfSeq(CodesOf(calls[i].doc)))
        /\ (calls[i].pc = "failed" => calls[i].failed)

C13_Witness ==
  /\ Len(calls) = 2
  /\ calls[1].pc = "done" /\ calls[2].pc = "done"
  /\ calls[1].doc = MkDoc(Some(40), "denied", Some(<<"", "99213">>))
  /\ calls[2].doc = MkDoc(None, "", None)
  /\ calls[2].writeNo = 1
  /\ calls[1].writeNo = 2
  /\ summary[1].totals = Some(MkTotals(2, 40))
  /\ summary[1].statusCounts = Some(("denied" :> 1) @@ ("unknown" :> 1))
  /\ facets = ("99213" :> 1)


(***************************************************************************)
(* Properties of the legacy migration                                      *)
(***************************************************************************)
LegacyShape(sum) ==
  sum # None /\ sum[1].data # None /\ sum[1].totals = None /\ sum[1].statusCounts = None

\* the key the current shape gives the counter of a legacy entry
KeyOf(entry) == IF entry._id # "" THEN entry._id ELSE "unknown"

\* C18: a run of the migration that ends without a store fault on a document
\* of the legacy shape stores totals equal to data.totalClaims and
\* data.totalAmount and statusCounts holding, for every entry of
\* data.statusBreakdown, the count of that entry, and keeps data unchanged.
C18_MigrationKeepsCounts ==
  \A k \in DOMAIN mig.runs :
    LET run == mig.runs[k]
        data == run.before[1].data[1]
    IN (LegacyShape(run.before) /\ ~run.threw) =>
         /\ run.after # None
         /\ run.after[1].data = run.before[1].data
         /\ run.after[1].totals = Some(MkTotals(data.totalClaims, data.totalAmount))
         /\ data.statusBreakdown # None =>
              \A e \in DOMAIN data.statusBreakdown[1] :
                /\ run.after[1].statusCounts # None
                /\ KeyOf(data.statusBreakdown[1][e]) \in DOMAIN run.after[1].statusCounts[1]
                /\ run.after[1].statusCounts[1][KeyOf(data.statusBreakdown[1][e])]
                     = data.statusBreakdown[1][e].count

CurrentShape(sum) == sum # None /\ sum[1].totals # None /\ sum[1].statusCounts # None

\* C19: a run of the migration after a run that ended without a store fault
\* writes nothing: the document, meta.generatedAt and meta.source included,
\* is the one the first run left; and a run writes nothing when the summary
\* is absent or already in the current shape.
C19_MigrationIdempotent ==
  \A k \in DOMAIN mig.runs :
    LET run == mig.runs[k]
    IN /\ (k > 1 /\ ~mig.runs[k - 1].threw /\ ~run.threw) =>
            (~run.wrote /\ run.after = mig.runs[k - 1].after)
       /\ (run.before = None \/ CurrentShape(run.before)) =>
            (~run.wrote /\ run.after = run.before)


\* the service at its start, with and without SUMMARY_BOOTSTRAP_ON_START:
\* the migration, the bootstrap when it is configured and the first
\* subscription to the insert feed, on a store that may be unreachable
InitStart ==
  /\ InitClaims
  /\ InitWire
  /\ summary \in { None,
                    Some(MkSummary(Some(MkLegacyData(3, 425, Some(<<MkEntry("approved", 2), MkEntry("denied", 1)>>))),
                                   None, None, LegacyMeta)) }
  /\ facets = EmptyFn
  /\ calls = <<>>
  /\ clock = 1
  /\ InitMigration
  /\ claimDocs \in {<<>>, <<MkDoc(Some(250), "approved", Some(<<"99213">>))>>}
  /\ upd = UpdIdle
  /\ boot = <<>>
  /\ streams = [s \in 1..MaxStreams |-> NoStream]
  /\ starts = [k \in 1..MaxStarts |-> NoStart]
  /\ env \in {MkEnv(flag, dbUp) : flag \in BOOLEAN, dbUp \in BOOLEAN}

NextStart ==
  \/ OnModuleInit
  \/ MigrateFindOne
  \/ MigrateUpdateOne
  \/ MigrateFails
  \/ AfterMigrate
  \/ BootstrapTimerFires
  \/ BootstrapFindOne(1)
  \/ BootstrapCount(1)
  \/ \E which \in Aggregations : BootstrapAggregate(1, which)
  \/ BootstrapDeleteMany(1)
  \/ BootstrapInsertMany(1)
  \/ BootstrapUpdateOne(1)
  \/ BootstrapFails(1)
  \/ AfterBootstrap
  \/ \E k \in 1..MaxStarts : StartWatch(k)
  \/ \E k \in 1..MaxStarts : StartFails(k)
  \/ RetryTimerFires
  \/ DbDown
  \/ DbUp

SpecStart == InitStart /\ [][NextStart]_vars

\* the subscription of a service started without the bootstrap: the insert
\* feed and its reconnects, while claims are inserted and the store and the
\* streams fail
InitFeed ==
  /\ InitClaims
  /\ InitWire
  /\ summary = None
  /\ facets = EmptyFn
  /\ calls = <<>>
  /\ clock = 1
  /\ InitMigration
  /\ InitBootstrap
  /\ streams = [s \in 1..MaxStreams |-> NoStream]
  /\ starts = [k \in 1..MaxStarts |-> NoStart]
  /\ env \in {MkEnv(FALSE, dbUp) : dbUp \in BOOLEAN}

\* the claim inserted while the feed is observed
FeedDoc == MkDoc(Some(250), "approved", None)

NextFeed ==
  \/ OnModuleInit
  \/ MigrateFindOne
  \/ MigrateFails
  \/ AfterMigrate
  \/ \E k \in 1..MaxStarts : StopStreamClosed(k)
  \/ \E k \in 1..MaxStarts : StartWatch(k)
  \/ \E k \in 1..MaxStarts : StartFails(k)
  \/ RetryTimerFires
  \/ \E s \in 1..MaxStreams : StreamError(s)
  \/ \E s \in 1..MaxStreams : StreamClose(s)
  \/ \E s \in 1..MaxStreams : StreamEnd(s)
  \/ \E s \in 1..MaxStreams : StreamChange(s)
  \/ InsertDoc(FeedDoc)
  \/ \E i \in 1..MaxEvents : env.dbUp /\ ApplySummaryWrite(i)
  \/ \E i \in 1..MaxEvents : ~env.dbUp /\ ApplySummaryFails(i)
  \/ DbDown
  \/ DbUp

SpecFeed == InitFeed /\ [][NextFeed]_vars

\* the change handler of the subscription while the writes of applyInsert
\* succeed or throw and the stream fails and is opened again
InitHandler ==
  /\ InitClaims
  /\ InitWire
  /\ InitSummary
  /\ InitMigration
  /\ InitBootstrap
  /\ streams = [s \in 1..MaxStreams |-> NoStream]
  /\ starts = [k \in 1..MaxStarts |-> NoStart]
  /\ env = MkEnv(FALSE, TRUE)

NextHandler ==
  \/ OnModuleInit
  \/ MigrateFindOne
  \/ AfterMigrate
  \/ \E k \in 1..MaxStarts : StartWatch(k)
  \/ \E k \in 1..MaxStarts : StopStreamClosed(k)
  \/ RetryTimerFires
  \/ \E s \in 1..MaxStreams : StreamError(s)
  \/ \E s \in 1..MaxStreams : StreamClose(s)
  \/ \E s \in 1..MaxStreams : StreamChange(s)
  \/ \E doc \in BootDocs : InsertDoc(doc)
  \/ \E i \in 1..MaxEvents : ApplySummaryWrite(i)
  \/ \E i \in 1..MaxEvents : ApplySummaryFails(i)
  \/ \E i \in 1..MaxEvents : ApplyFacetWrite(i, "99213")
  \/ \E i \in 1..MaxEvents : ApplyFacetFails(i, "99213")

SpecHandler == InitHandler /\ [][NextHandler]_vars

\* the service started and then shut down, with and without the bootstrap,
\* while its stream fails and is opened again
InitShutdown ==
  /\ InitClaims
  /\ InitWire
  /\ InitSummary
  /\ InitMigration
  /\ InitBootstrap
  /\ streams = [s \in 1..MaxStreams |-> NoStream]
  /\ starts = [k \in 1..MaxStarts |-> NoStart]
  /\ env \in {MkEnv(flag, TRUE) : flag \in BOOLEAN}

NextShutdown ==
  \/ OnModuleInit
  \/ MigrateFindOne
  \/ AfterMigrate
  \/ BootstrapTimerFires
  \/ BootstrapFindOne(1)
  \/ BootstrapCount(1)
  \/ \E which \in Aggregations : BootstrapAggregate(1, which)
  \/ BootstrapDeleteMany(1)
  \/ BootstrapUpdateOne(1)
  \/ BootstrapFails(1)
  \/ AfterBootstrap
  \/ \E k \in 1..MaxStarts : StartWatch(k)
  \/ \E k \in 1..MaxStarts : StopStreamClosed(k)
  \/ RetryTimerFires
  \/ \E s \in 1..MaxStreams : StreamError(s)
  \/ \E s \in 1..MaxStreams : StreamClose(s)
  \/ OnModuleDestroy
  \/ \E k \in 1..MaxStarts : DestroyClosed(k)

SpecShutdown == InitShutdown /\ [][NextShutdown]_vars

\* the same with the steps that are bound to happen: a timer that is set
\* fires, an awaited call returns, the driver closes a stream that failed,
\* a write to a reachable store is answered, and the store becomes
\* reachable again
FairFeed ==
  /\ WF_vars(OnModuleInit)
  /\ WF_vars(MigrateFindOne)
  /\ WF_vars(AfterMigrate)
  /\ WF_vars(RetryTimerFires)
  /\ \A k \in 1..MaxStarts : WF_vars(StopStreamClosed(k))
  /\ \A k \in 1..MaxStarts : WF_vars(StartWatch(k))
  /\ \A k \in 1..MaxStarts : WF_vars(StartFails(k))
  /\ \A s \in 1..MaxStreams : WF_vars(StreamClose(s))
  /\ \A i \in 1..MaxEvents : WF_vars(env.dbUp /\ ApplySummaryWrite(i))
  /\ WF_vars(DbUp)

SpecFeedFair == SpecFeed /\ FairFeed

\* the broadcaster of either source notified of the writes of the migration
\* and of applyInsert, on the documents the store may hold
SixCodes ==
  ("99211" :> 6) @@ ("99212" :> 5) @@ ("99213" :> 4) @@ ("99214" :> 3) @@ ("99215" :> 2) @@ ("99216" :> 1)

BroadcastStores ==
  { [summary |-> None, facets |-> EmptyFn],
    [summary |-> Some(MkSummary(Some(WithTopProcedures(
                                       MkLegacyData(3, 425, Some(<<MkEntry("approved", 2), MkEntry("denied", 1)>>)),
                                       <<MkEntry("99213", 3), MkEntry("99214", 1)>>)),
                                None, None, LegacyMeta)),
     facets |-> EmptyFn],
    [summary |-> Some(MkSummary(Some(MkLegacyData(2, 140, None)), None, None, LegacyMeta)),
     facets |-> EmptyFn],
    [summary |-> Some(MkSummary(None, Some(MkTotals(7, 900)), Some(("denied" :> 3) @@ ("approved" :> 4)),
                                MkMeta(1, Some(0), "bootstrap"))),
     facets |-> SixCodes] }

BroadcastDocs == {MkDoc(Some(250), "approved", Some(<<"99213">>))}

InitBroadcast ==
  /\ InitClaims
  /\ \E store \in BroadcastStores :
       /\ summary = store.summary
       /\ facets = store.facets
  /\ calls = <<>>
  /\ clock = 1
  /\ InitMigration
  /\ InitBootstrap
  /\ streams = [s \in 1..MaxStreams |-> NoStream]
  /\ starts = [k \in 1..MaxStarts |-> NoStart]
  /\ env = MkEnv(FALSE, TRUE)
  /\ bc \in {MkBroadcaster(build) : build \in Builds}
  /\ reads = <<>>
  /\ client = ClientIdle

NextBroadcast ==
  \/ BcOnModuleInit
  \/ \E k \in 1..MaxStarts : BcStartWatch(k)
  \/ \E s \in 1..MaxStreams : BcStreamChange(s)
  \/ \E i \in 1..MaxPushes : BcEmit(i)
  \/ \E i \in 1..MaxPushes : BcEmitReadFails(i)
  \/ mig.runs = <<>> /\ MigrateCall
  \/ MigrateFindOne
  \/ MigrateUpdateOne
  \/ \E doc \in BroadcastDocs : OnChange(doc)
  \/ \E i \in 1..MaxEvents : ApplySummaryWrite(i)
  \/ \E i \in 1..MaxEvents : ApplyFacetWrite(i, "99213")

SpecBroadcast == InitBroadcast /\ [][NextBroadcast]_vars

\* the updater and the broadcaster each holding its subscription while a
\* stream of either fails or is ended by the server
InitIndependent ==
  /\ InitClaims
  /\ InitWire
  /\ summary = None
  /\ facets = EmptyFn
  /\ calls = <<>>
  /\ clock = 1
  /\ InitMigration
  /\ InitBootstrap
  /\ streams = [s \in 1..MaxStreams |-> NoStream]
  /\ starts = [k \in 1..MaxStarts |-> NoStart]
  /\ env = MkEnv(FALSE, TRUE)

NextIndependent ==
  \/ OnModuleInit
  \/ MigrateFindOne
  \/ AfterMigrate
  \/ \E k \in 1..MaxStarts : StopStreamClosed(k)
  \/ \E k \in 1..MaxStarts : StartWatch(k)
  \/ RetryTimerFires
  \/ \E s \in 1..MaxStreams : StreamError(s)
  \/ \E s \in 1..MaxStreams : StreamClose(s)
  \/ \E s \in 1..MaxStreams : StreamEnd(s)
  \/ BcOnModuleInit
  \/ \E k \in 1..MaxStarts : BcStopStreamClosed(k)
  \/ \E k \in 1..MaxStarts : BcStartWatch(k)
  \/ BcRetryTimerFires
  \/ \E s \in 1..MaxStreams : BcStreamError(s)
  \/ \E s \in 1..MaxStreams : BcStreamClose(s)
  \/ \E s \in 1..MaxStreams : BcStreamEnd(s)

SpecIndependent == InitIndependent /\ [][NextIndependent]_vars

\* the same with the steps that are bound to happen, for both services
FairIndependent ==
  /\ WF_vars(OnModuleInit)
  /\ WF_vars(MigrateFindOne)
  /\ WF_vars(AfterMigrate)
  /\ WF_vars(RetryTimerFires)
  /\ \A k \in 1..MaxStarts : WF_vars(StopStreamClosed(k))
  /\ \A k \in 1..MaxStarts : WF_vars(StartWatch(k))
  /\ \A s \in 1..MaxStreams : WF_vars(StreamClose(s))
  /\ WF_vars(BcOnModuleInit)
  /\ WF_vars(BcRetryTimerFires)
  /\ \A k \in 1..MaxStarts : WF_vars(BcStopStreamClosed(k))
  /\ \A k \in 1..MaxStarts : WF_vars(BcStartWatch(k))
  /\ \A s \in 1..MaxStreams : WF_vars(BcStreamClose(s))

SpecIndependentFair == SpecIndependent /\ FairIndependent

\* a bootstrap over a collection that receives no insert, and insert events
\* applied before and after it
QuietDocs ==
  { MkDoc(Some(250), "approved", Some(<<"99213">>)),
    MkDoc(Some(40), "unknown", None),
    MkDoc(None, "", None) }

InitQuiet ==
  /\ InitClaims
  /\ InitWire
  /\ InitSummary
  /\ InitMigration
  /\ claimDocs \in UNION {[1..n -> QuietDocs] : n \in 0..MaxDocs}
  /\ upd = UpdIdle
  /\ boot = <<>>
  /\ InitStream

NextQuiet ==
  \/ boot = <<>> /\ BootstrapCall
  \/ BootstrapFindOne(1)
  \/ BootstrapCount(1)
  \/ \E which \in Aggregations : BootstrapAggregate(1, which)
  \/ BootstrapDeleteMany(1)
  \/ BootstrapInsertMany(1)
  \/ BootstrapUpdateOne(1)
  \/ \E doc \in QuietDocs : OnChange(doc)
  \/ \E i \in 1..MaxEvents : ApplySummaryWrite(i)
  \/ \E i \in 1..MaxEvents : ApplyFacetWrite(i, "99213")

SpecQuiet == InitQuiet /\ [][NextQuiet]_vars

\* the read requests while the store is reachable or not
InitReads ==
  /\ InitClaims
  /\ InitWire
  /\ \E store \in BroadcastStores :
       /\ summary = store.summary
       /\ facets = store.facets
  /\ calls = <<>>
  /\ clock = 1
  /\ InitMigration
  /\ InitBootstrap
  /\ streams = [s \in 1..MaxStreams |-> NoStream]
  /\ starts = [k \in 1..MaxStarts |-> NoStart]
  /\ env \in {[MkEnv(FALSE, dbUp) EXCEPT !.connected = connected] : dbUp \in BOOLEAN, connected \in BOOLEAN}

NextReads ==
  \/ GetSummary
  \/ SlowOps
  \/ \E valid \in BOOLEAN : GetClaim(valid)
  \/ ListClaimsCall
  \/ DbDown
  \/ DbUp

SpecReads == InitReads /\ [][NextReads]_vars

\* a bootstrap over a collection that receives no insert, then the insert
\* events of further claims applied to what it stored
RecomputeDocs ==
  { MkDoc(Some(250), "approved", Some(<<"99213", "99213">>)),
    MkDoc(Some(40), "unknown", Some(<<"", "99214">>)),
    MkDoc(None, "", None) }

InitRecompute ==
  /\ InitClaims
  /\ InitWire
  /\ InitSummary
  /\ InitMigration
  /\ claimDocs \in UNION {[1..n -> RecomputeDocs] : n \in 0..MaxDocs}
  /\ upd = UpdIdle
  /\ boot = <<>>
  /\ InitStream

BootstrapCompleted == boot # <<>> /\ boot[1].pc = "completed"

NextRecompute ==
  \/ boot = <<>> /\ BootstrapCall
  \/ BootstrapFindOne(1)
  \/ BootstrapCount(1)
  \/ \E which \in Aggregations : BootstrapAggregate(1, which)
  \/ BootstrapDeleteMany(1)
  \/ BootstrapInsertMany(1)
  \/ BootstrapUpdateOne(1)
  \/ \E doc \in RecomputeDocs : BootstrapCompleted /\ OnChange(doc)
  \/ \E i \in 1..MaxEvents : ApplySummaryWrite(i)
  \/ \E i \in 1..MaxEvents, code \in {"99213", "99214"} : ApplyFacetWrite(i, code)

SpecRecompute == InitRecompute /\ [][NextRecompute]_vars

\* the start of the service with the bootstrap while claims are inserted,
\* then the feed delivering the inserts made after the subscription
InitStartup ==
  /\ InitClaims
  /\ InitWire
  /\ InitSummary
  /\ InitMigration
  /\ InitBootstrap
  /\ streams = [s \in 1..MaxStreams |-> NoStream]
  /\ starts = [k \in 1..MaxStarts |-> NoStart]
  /\ env = MkEnv(TRUE, TRUE)

NextStartup ==
  \/ InsertDoc(FeedDoc)
  \/ OnModuleInit
  \/ MigrateFindOne
  \/ AfterMigrate
  \/ BootstrapTimerFires
  \/ BootstrapFindOne(1)
  \/ BootstrapCount(1)
  \/ \E which \in Aggregations : BootstrapAggregate(1, which)
  \/ BootstrapDeleteMany(1)
  \/ BootstrapUpdateOne(1)
  \/ AfterBootstrap
  \/ \E k \in 1..MaxStarts : StartWatch(k)
  \/ \E s \in 1..MaxStreams : StreamChange(s)
  \/ \E i \in 1..MaxEvents : ApplySummaryWrite(i)

SpecStartup == InitStartup /\ [][NextStartup]_vars

(***************************************************************************)
(* Properties of bootstrapIfNeeded                                         *)
(***************************************************************************)
\* the store at the call lacks the summary document or every facet counter
NeedsBootstrap(run) == run.before[1].summary = None \/ DOMAIN run.before[1].facets = {}

\* the run has stored the result of its aggregation
Rewrote(run) ==
  /\ run.after[1].summary # None
  /\ run.after[1].summary[1].totals = Some(MkTotals(run.agg.totalClaims[1], run.agg.totalAmount[1]))
  /\ run.after[1].summary[1].statusCounts = Some(StatusCountsOf(run.agg.statusBreakdown[1]))
  /\ run.after[1].summary[1].meta.source = "bootstrap"
  /\ run.after[1].facets = run.agg.procedureCounts[1]

\* C14: bootstrapIfNeeded aggregates the claims and rewrites the summary and
\* the facet table exactly when the summary is absent or the facet table is
\* empty; when the summary exists and the table holds a counter the run
\* reads nothing from claims and writes nothing.
C14_BootstrapExactlyWhenNeeded ==
  \A i \in DOMAIN boot :
    LET run == boot[i]
    IN /\ (run.pc \in {"aggregate", "deleteMany", "insertMany", "updateOne", "completed"} => NeedsBootstrap(run))
       /\ (run.pc = "returned" =>
             ~NeedsBootstrap(run) /\ run.claimReads = 0 /\ run.writes = 0 /\ run.after = run.before)
       /\ (run.pc = "completed" =>
             /\ run.claimReads = Cardinality(Aggregations)
             /\ Rewrote(run)
             /\ (run.docsBefore = run.docsAfter =>
                   /\ run.agg.totalClaims = Some(Len(run.docsAfter))
                   /\ run.agg.procedureCounts = Some(ProcedureCounts(run.docsAfter))))

C14_Witness ==
  /\ Len(boot) = 2
  /\ boot[1].pc = "completed"
  /\ boot[1].before[1].summary # None
  /\ boot[1].before[1].facets = EmptyFn
  /\ boot[1].after[1].facets = ("99213" :> 1)
  /\ boot[2].pc = "returned"

\* two runs one after the other that both ran to their end, no claim
\* inserted since the first was called
TwoRunsInARow(k) ==
  /\ k > 1
  /\ boot[k - 1].pc \in {"returned", "completed"}
  /\ boot[k].pc \in {"returned", "completed"}
  /\ boot[k - 1].docsBefore = boot[k].docsAfter

C16_OneBootstrapAtATime ==
  /\ Cardinality({i \in DOMAIN boot : boot[i].pc \in BootActive}) <= 1
  /\ upd.bootstrapRunning = (\E i \in DOMAIN boot : boot[i].pc \in BootActive)
  /\ \A i \in DOMAIN boot :
       boot[i].pc = "skipped" =>
         /\ boot[i].reads = 0 /\ boot[i].claimReads = 0 /\ boot[i].writes = 0
         /\ boot[i].after = boot[i].before
         /\ \E j \in 1..(i - 1) : boot[j].pc # "skipped"

C16_Witness ==
  /\ Len(boot) = 2
  /\ boot[1].pc = "threw"
  /\ boot[1].writes = 1
  /\ boot[2].pc = "skipped"
  /\ ~upd.bootstrapRunning


(***************************************************************************)
(* Properties of the start of the service and of the insert feed           *)
(***************************************************************************)
\* a startStream call is in progress
Starting == \E k \in DOMAIN starts : starts[k].pc # "free"

\* C17: with SUMMARY_BOOTSTRAP_ON_START = '0' the start of the updater
\* never sets the bootstrap timer and never calls bootstrapIfNeeded, so it
\* makes no aggregation over claims; once the migration has ended it calls
\* startStream at once.
C17_NoBootstrapWhenDisabled ==
  ~env.flag =>
    /\ boot = <<>>
    /\ upd.bootstrapTimer = None
    /\ ~upd.bootstrapRunning
    /\ env.init \in {"new", "migrate", "done"}
    /\ (env.init = "done" =>
          /\ Len(mig.runs) = 1
          /\ Starting \/ upd.changeStream # 0 \/ upd.retryTimer # None)
    /\ (env.init # "done" => ~Starting /\ upd.changeStream = 0 /\ upd.retryTimer = None)

C17_Witness ==
  /\ ~env.flag
  /\ env.init = "done"
  /\ Len(mig.runs) = 1
  /\ mig.runs[1].wrote
  /\ claimDocs # <<>>
  /\ upd.changeStream # 0
  /\ streams[upd.changeStream].state = "open"

\* a stream of the service is open, its listeners attached
Subscribed == \E s \in DOMAIN streams : streams[s].state = "open"

\* once the start has called startStream the updater always has an open
\* stream, a retry timer of 5000 ms, or a startStream call in progress
RetryCovered ==
  /\ upd.retryTimer \in {None, Some(RetryDelayMs)}
  /\ (env.init = "done" => Subscribed \/ upd.retryTimer # None \/ Starting)

\* the summary counts every event whose update the store has executed
AppliedCounted ==
  LET applied == Cardinality({i \in DOMAIN calls : calls[i].writeNo > 0})
  IN /\ (summary = None) = (applied = 0)
     /\ summary # None => summary[1].totals[1] = MkTotals(applied, AmountOf(FeedDoc) * applied)

\* C20: a stream error, a close or a failed opening always leaves the
\* updater with a retry timer of 5000 ms or a startStream call in progress;
\* when the store becomes reachable again a stream is open again in the
\* end; and every event a stream delivers is applied to the summary (or its
\* write is refused because the store is unreachable at that moment).
C20_ReconnectsAndApplies ==
  /\ [](RetryCovered /\ AppliedCounted)
  /\ ((env.init = "done" /\ ~Subscribed) ~> Subscribed)
  /\ \A i \in 1..MaxEvents :
       (i \in DOMAIN calls /\ calls[i].pc = "summary")
         ~> (i \in DOMAIN calls /\ (calls[i].writeNo > 0 \/ calls[i].failed))

\* the second stream is open in the second place while the first place is
\* free again: the first stream has failed and a retry has opened another,
\* which has delivered the one event that was applied
C20_Witness ==
  /\ env.faults > 0
  /\ upd.changeStream = 2
  /\ streams[1].state = "none"
  /\ streams[2] = [state |-> "open", from |-> 1, pos |-> 2]
  /\ Len(claimDocs) = 2
  /\ Len(calls) = 1
  /\ calls[1].pc = "done"
  /\ summary # None
  /\ upd.retryTimer = None


(***************************************************************************)
(* Properties of the change handler                                        *)
(***************************************************************************)
\* a step in which a write of some applyInsert call throws
WriteThrows == \E i \in DOMAIN calls : ~calls[i].failed /\ calls'[i].failed

\* a step in which stream s delivers its next event
Delivers(s) ==
  /\ streams[s].state = "open"
  /\ streams'[s] = [streams[s] EXCEPT !.pos = @ + 1]

\* C21: a write of applyInsert that throws leaves the streams, the retry
\* timer and the startStream calls as they are, and every event a stream
\* delivers, also after a failure, starts a new applyInsert call with the
\* document of the event.
C21_FailureKeepsSubscription ==
  [][/\ (WriteThrows => streams' = streams /\ upd' = upd /\ starts' = starts)
     /\ \A s \in DOMAIN streams :
          Delivers(s) =>
            /\ Len(calls') = Len(calls) + 1
            /\ calls'[Len(calls')] = NewCall(claimDocs[streams'[s].pos])]_vars

\* the summary update of the first event threw while the stream has stayed
\* open without a retry timer, and the second event of the same stream has
\* been applied
C21_Witness ==
  /\ streams[1] = [state |-> "open", from |-> 0, pos |-> 2]
  /\ upd.changeStream = 1
  /\ upd.retryTimer = None
  /\ env.faults = 0
  /\ Len(calls) = 2
  /\ calls[1].failed
  /\ calls[1].writeNo = 0
  /\ calls[2].pc = "done"
  /\ summary # None
  /\ summary[1].totals[1].totalClaims = 1

\* C23: of two events the handler received one after the other, the summary
\* update of the first is applied to the store before that of the second.
C23_WritesInDeliveryOrder ==
  \A i, j \in DOMAIN calls :
    (i < j /\ calls[j].writeNo > 0 /\ ~calls[i].failed) =>
      (calls[i].writeNo > 0 /\ calls[i].writeNo < calls[j].writeNo)


(***************************************************************************)
(* Properties of the subscription handle                                   *)
(***************************************************************************)
\* C22: totals.totalClaims never exceeds the number of claims inserted (the
\* summary is absent at the start and no bootstrap is configured): no event
\* is applied twice.
C22_AppliedAtMostOnce ==
  summary # None => summary[1].totals[1].totalClaims <= Len(claimDocs)

\* C24: at most one stream of the instance is open, and an open stream is
\* the changeStream of the instance.
C24_SingleOwnedStream ==
  /\ Cardinality({s \in DOMAIN streams : streams[s].state = "open"}) <= 1
  /\ \A s \in DOMAIN streams : streams[s].state = "open" => upd.changeStream = s

\* C25: once onModuleDestroy has returned the instance has no open stream,
\* no retry timer and no bootstrap timer, and no startStream call is in
\* progress.
C25_DestroyedStaysQuiet ==
  env.destroy = "done" =>
    /\ upd.changeStream = 0
    /\ upd.retryTimer = None
    /\ upd.bootstrapTimer = None
    /\ ~Subscribed
    /\ ~Starting

\* the list is in the order of decreasing count
SortedByCount(list) == \A i, j \in DOMAIN list : i < j => list[i].count >= list[j].count

\* the data object holds the two totals, a sorted statusBreakdown and at most
\* five topProcedures
WireShape(data) ==
  /\ data # None
  /\ data[1].totalClaims # None
  /\ data[1].totalAmount # None
  /\ data[1].statusBreakdown # None
  /\ SortedByCount(data[1].statusBreakdown[1])
  /\ data[1].topProcedures # None
  /\ Len(data[1].topProcedures[1]) <= TopLimit

\* C26: every notification with a full document gives one pushed message,
\* at once or when the facet table has been read; the data of each pushed
\* message holds totalClaims, totalAmount, a statusBreakdown sorted by
\* decreasing count and at most five topProcedures; and a read of the facet
\* table that threw gives a message with empty topProcedures.
C26_PushesWireShape ==
  /\ Len(bc.pushed) + Len(bc.emitting) = bc.taken
  /\ \A i, j \in DOMAIN bc.pushed : bc.pushed[i].no = bc.pushed[j].no => i = j
  /\ \A i \in DOMAIN bc.pushed :
       /\ WireShape(bc.pushed[i].data)
       /\ bc.pushed[i].threw => bc.pushed[i].data[1].topProcedures = Some(<<>>)

\* C27: the data of every message pushed without a failed read is the data
\* getSummary returns for the document and the facet table the message
\* stands for.
C27_PushEqualsGetSummary ==
  \A i \in DOMAIN bc.pushed :
    ~bc.pushed[i].threw
      => bc.pushed[i].data = summaryResponse(Some(bc.pushed[i].doc), bc.pushed[i].facets).data

BcSubscribed == \E s \in DOMAIN bc.streams : bc.streams[s].state = "open"

BcStarting == \E k \in DOMAIN bc.starts : bc.starts[k].pc # "free"

\* once started the broadcaster always has an open stream, a retry timer of
\* 5000 ms, or a startStream call in progress
BcRetryCovered ==
  /\ bc.retryTimer \in {None, Some(RetryDelayMs)}
  /\ (bc.init => BcSubscribed \/ bc.retryTimer # None \/ BcStarting)

\* the fields and streams of the updater's subscription
UpdaterFeed == <<upd, streams, starts>>

\* C28: an error or close of the summary stream, or a failure to open it,
\* leaves the broadcaster with its own retry timer of 5000 ms or a
\* startStream call in progress, and a summary stream is open again in the
\* end; no step of the broadcaster changes the updater's fields, streams or
\* startStream calls, and no step of the updater changes the broadcaster;
\* and the updater's stream is open again in the end as well.
C28_BroadcasterReconnectsAlone ==
  /\ []BcRetryCovered
  /\ [][bc' # bc => UpdaterFeed' = UpdaterFeed]_vars
  /\ [][UpdaterFeed' # UpdaterFeed => bc' = bc]_vars
  /\ ((bc.init /\ ~BcSubscribed) ~> BcSubscribed)
  /\ ((env.init = "done" /\ ~Subscribed) ~> Subscribed)

\* the summary stream has failed and a retry has opened another one in the
\* second place, while the first stream of the updater is still its open
\* one and the updater has no retry timer and no startStream call
C28_Witness ==
  /\ bc.changeStream = 2
  /\ bc.streams[2].state = "open"
  /\ bc.streams[1].state = "closed"
  /\ bc.retryTimer = None
  /\ upd.changeStream = 1
  /\ streams[1].state = "open"
  /\ streams[2] = NoStream
  /\ upd.retryTimer = None
  /\ ~Starting

\* no applyInsert, bootstrap or migration is in progress
Quiescent ==
  /\ \A i \in DOMAIN calls : calls[i].pc \notin {"summary", "facets"}
  /\ \A i \in DOMAIN boot : boot[i].pc \in BootEnded
  /\ mig.pc = "idle"

\* C29: in a quiescent state the summary made by a bootstrap over a
\* collection without inserts during the run, or by the increments of insert
\* events from no document, has totals.totalClaims equal to the sum of the
\* values of statusCounts.
C29_TotalIsSumOfStatusCounts ==
  (Quiescent /\ summary # None)
    => summary[1].totals[1].totalClaims
         = SumOver(DOMAIN summary[1].statusCounts[1], summary[1].statusCounts[1])

\* the response of getSummary for no document: zero totals, empty lists and
\* cached false
EmptyResponse ==
  [data |-> Some(MkData(Some(0), Some(0), Some(<<>>), Some(<<>>))), meta |-> NoMeta, cached |-> FALSE]

\* C30: every read request returns a response and none throws, whether or
\* not the store can be read; and getSummary on a store without a summary
\* document and without facet counters returns zero totals, empty lists and
\* cached false.
C30_ReadsAlwaysRespond ==
  \A i \in DOMAIN reads :
    /\ ~reads[i].threw
    /\ (reads[i].op = "getSummary" /\ summary = None /\ facets = EmptyFn)
         => reads[i].body = Some(EmptyResponse)

\* C31: getClaim with an id that is not valid returns {data: null}, does not
\* throw and does not call findOne.
C31_InvalidIdGivesNull ==
  \A i \in DOMAIN reads :
    (reads[i].op = "getClaim" /\ ~reads[i].valid)
      => /\ ~reads[i].threw
         /\ reads[i].body = Some([data |-> None])
         /\ ~reads[i].findOne

\* the claims of the collection followed by those of the insert events
WithEvents == claimDocs \o [i \in DOMAIN calls |-> calls[i].doc]

\* what a bootstrap stores for the claims docs: the counters of the summary
\* and the facet table
Recomputed(docs) ==
  [summary |-> Some([totals |-> Some(MkTotals(Aggregate("totalClaims", docs), Aggregate("totalAmount", docs))),
                     statusCounts |-> Some(StatusCountsOf(Aggregate("statusBreakdown", docs)))]),
   facets |-> Aggregate("procedureCounts", docs)]

\* C32: when the bootstrap over the collection has completed and every
\* insert event that followed has been applied, the counters of the summary
\* and the facet table are those a bootstrap over the collection with the
\* claims of the events would store.
C32_DeltasEqualRecompute ==
  (BootstrapCompleted /\ Quiescent /\ \A i \in DOMAIN calls : calls[i].pc = "done")
    => StoreCounters(Store) = Recomputed(WithEvents)

\* the startup has ended with an open stream, the stream has delivered every
\* insert it has to deliver and every delivered event has been applied
CaughtUp ==
  /\ env.init = "done"
  /\ Quiescent
  /\ \E s \in DOMAIN streams : streams[s].state = "open" /\ streams[s].pos = Len(claimDocs)
  /\ \A i \in DOMAIN calls : calls[i].pc = "done"

\* C33: with the bootstrap enabled and no feed error, once the startup has
\* ended and every delivered event is applied, totals.totalClaims is the
\* number of claims in the collection.
C33_NoInsertMissed ==
  CaughtUp => (summary # None /\ summary[1].totals[1].totalClaims = Len(claimDocs))

\* the reconnect attempts a service has pending or in progress: its retry
\* timer and its startStream calls that have not yet opened a stream
Attempts(u, sts) ==
  (IF u.retryTimer # None THEN 1 ELSE 0) + Cardinality({k \in DOMAIN sts : sts[k].pc # "free"})

\* C34: with one failure of a stream, the updater and the broadcaster each
\* have at most one reconnect attempt pending or in progress: the error and
\* the close of the failed stream arm one retry timer between them, and no
\* timer is pending next to the startStream call it started.
C34_SingleReconnectAttempt ==
  /\ Attempts(upd, starts) <= 1
  /\ Attempts(bc, bc.starts) <= 1

\* the service holds an open stream, no startStream call is in progress and
\* no stream has yet to emit its close
Settled(u, strs, sts) ==
  /\ u.changeStream # 0
  /\ strs[u.changeStream].state = "open"
  /\ \A k \in DOMAIN sts : sts[k].pc = "free"
  /\ \A s \in DOMAIN strs : strs[s].state # "errored"

\* C35: once a reconnect has left the service with an open stream and no
\* stream has an event yet to come, no retry timer is pending, in the
\* updater and in the broadcaster.
C35_NoTimerAfterReconnect ==
  /\ Settled(upd, streams, starts) => upd.retryTimer = None
  /\ Settled(bc, bc.streams, bc.starts) => bc.retryTimer = None

\* the start of the service with the bootstrap enabled, on a store that
\* makes the run return early or go through, with a run that may throw,
\* while claims are inserted and the feed delivers them
NextSubscribe ==
  \/ NextStartup
  \/ BootstrapFails(1)

SpecSubscribe == InitBoot /\ [][NextSubscribe]_vars

\* the bootstrap run of the instance has ended
BootstrapFinished == boot # <<>> /\ \A i \in DOMAIN boot : boot[i].pc \in BootEnded

\* C36: with the bootstrap enabled, a startStream call, a change stream or an
\* applyInsert call exists only once the bootstrap run has ended; when the run
\* has ended, however it ended, the call of startStream is the next step of
\* the startup, and once the startup is over the subscription is open or
\* being opened.
C36_SubscribesAfterBootstrap ==
  /\ (Starting \/ upd.changeStream # 0 \/ calls # <<>>
      \/ \E s \in DOMAIN streams : streams[s].state # "none") => BootstrapFinished
  /\ (env.init = "bootstrap" /\ BootstrapFinished) => ENABLED AfterBootstrap
  /\ env.init = "done" => (Starting \/ Subscribed)

\* the run threw, the stream was opened all the same and an insert made
\* afterwards has been applied
C36_Witness ==
  /\ boot # <<>>
  /\ boot[1].pc = "threw"
  /\ Subscribed
  /\ calls # <<>>
  /\ calls[1].pc = "done"

\* C37: an applyInsert call that has ended has either made its summary update
\* and every facet increment of its valid codes, or no write at all.
C37_InsertAllOrNothing ==
  \A i \in DOMAIN calls :
    calls[i].pc \in {"done", "failed"} =>
      \/ calls[i].writeNo > 0 /\ calls[i].wrote = BagOfSeq(CodesOf(calls[i].doc))
      \/ calls[i].writeNo = 0 /\ calls[i].wrote = EmptyBag

\* C38: the messages pushed to the subscribers are in the order of the
\* notifications they were built from.
C38_PushesInChangeOrder ==
  \A i, j \in DOMAIN bc.pushed : i < j => bc.pushed[i].no < bc.pushed[j].no

\* the position a cursor string denotes, as a document of the sort order
PositionOf(cursor) ==
  [_id |-> parseCursor(cursor)[1].id, serviceDate |-> parseCursor(cursor)[1].date]

\* C39: a cursor-mode response with hasMore=true carries a nextCursor that
\* parses, and its position lies strictly after the position of the cursor
\* of the request in the (serviceDate, _id) order of the requested direction.
C39_NextCursorAdvances ==
  (CursorResp /\ resp[1].res.meta.hasMore = Some(TRUE)) =>
    LET query == resp[1].query
        next == resp[1].res.meta.nextCursor
    IN /\ next # None
       /\ parseCursor(next[1]) # None
       /\ cursorFilterOf(query) # None =>
            sortDirOf(query) * CmpFields(PositionOf(next[1]), CursorPosition(query),
                                         <<"serviceDate", "_id">>) > 0

\* the client choosing filters and scrolling while claims are ingested and
\* its requests are answered in any order
NextClient ==
  \/ \E c \in ClaimPool : InsertClaim(c)
  \/ \E query \in ClientQueries : LoadClaimsReset(query)
  \/ LoadClaimsMore
  \/ \E i \in 1..MaxRequests : LoadClaimsResolves(i)
  \/ \E i \in 1..MaxRequests : LoadClaimsRejects(i)

SpecClient == Init /\ [][NextClient]_vars

\* C40: what the client's list, cursor and hasMore hold was returned for the
\* current filters: no response to a request sent for other filters has been
\* stored since the reset load of the current ones began.
C40_ListIsOfCurrentFilters ==
  client.from \subseteq {client.params}

=============================================================================
